---- MODULE Spec2Model ----
(***************************************************************************)
(* Print Layout Planner: the packing optimiser (helpers/packing.ts), the   *)
(* sheet tiling / PDF export (helpers/exportPdf.ts), and the handlers of   *)
(* App that change the object list and the sheet grid (App.tsx).           *)
(*                                                                         *)
(* Numbers.  The program computes in IEEE doubles; the model computes in   *)
(* integers.  The packer's lengths are whole millimetres (areas in mm^2),  *)
(* the export's lengths are whole multiples of 0.0001 mm (UNITS_PER_MM of  *)
(* them in a millimetre), so that EPSILON = 0.0001 mm is one export unit   *)
(* and slivers at and below EPSILON exist.  A packer comparison against    *)
(* EPSILON converts its lengths to export units first: lengthUnit is the   *)
(* number of export units in one length unit of the packer's input,        *)
(* UNITS_PER_MM when the packer is given whole millimetres, 1 when it is   *)
(* given lengths one EPSILON apart.                                        *)
(* SpecOptDouble alone computes in the doubles themselves, for a list of   *)
(* one rectangle, to settle what rounding does to the column range.        *)
(* Sequences are 1-based: shelf index 0 stands for the code's -1.          *)
(***************************************************************************)
EXTENDS Integers, Sequences, FiniteSets, TLC

VARIABLES
    \* ---- packWithinWidth, run on its own (SpecPack) ----
    rectangles,      \* the ordered input of packWithinWidth
    maxWidthMm,      \* its width bound
    lengthUnit,      \* export units in one length unit of the packer's numbers
    pk,              \* the locals of packWithinWidth: shelves, placements, ...
    packIndex,       \* position of the for-of loop over rectangles (next to place)
    packPc,          \* "loop" | "nofit" | "done" | "off"
    \* ---- optimisePackingLayout (SpecOpt) ----
    objects,         \* the caller's list
    sheetWidthMm,
    sheetHeightMm,
    sorted,          \* the sorted copy
    columns,         \* the loop variable
    best,            \* <<>> for null, <<r>> for a PackingResult r
    evaluated,       \* history: the candidates the loop has evaluated so far
    optPc,           \* "start" | "loop" | "done" | "off"
    \* ---- exportLayoutToPdf (SpecExport); lengths in units of 0.0001 mm ----
    expObjects,      \* the objects argument
    sheet,           \* the sheet argument: [w, h]
    gridColumns,     \* the columns argument
    gridRows,        \* the rows argument
    decode,          \* per object id: "none" | "pending" | "loaded" | "failed" (loadImage)
    textures,        \* the keys of the textures Map
    expPc,           \* where the async function is, or how it ended
    rowIndex,        \* the loop variables of the tiling
    columnIndex,
    docPages,        \* the pages of the jsPDF document, each a sequence of draw commands
    hasAnyPage,
    saved,           \* doc.save was called
    \* ---- the state of App (SpecApp); lengths in whole millimetres ----
    appObjects,      \* objects: records [id, widthMm, heightMm, xMm, yMm, textureName]
    sheetColumns,
    sheetRows,
    sheetDimensions, \* [widthMm, heightMm] of the selected paper and orientation
    formError,       \* the notices of the form: a set of tags, {} for null
    alertShown,      \* the last window.alert, "none" before the first
    appEvent,        \* history: what the last handler did
    paperSizeId,     \* "a4" | "a5"
    orientation,     \* "portrait" | "landscape"
    reads,           \* the FileReader reads in flight: records [id, name]
    nextId,          \* the next fresh object id (an id is never handed out twice)
    appSteps         \* history: the handler calls so far, where a specification counts them

packVars == <<rectangles, maxWidthMm, lengthUnit, pk, packIndex, packPc>>
optVars == <<objects, sheetWidthMm, sheetHeightMm, sorted, columns, best, evaluated, optPc>>
expVars == <<expObjects, sheet, gridColumns, gridRows, decode, textures, expPc, rowIndex,
             columnIndex, docPages, hasAnyPage, saved>>
appVars == <<appObjects, sheetColumns, sheetRows, sheetDimensions, formError, alertShown,
             appEvent, paperSizeId, orientation, reads, nextId, appSteps>>
vars == <<packVars, optVars, expVars, appVars>>

-----------------------------------------------------------------------------
(* Program constants *)

MAX_SHEET_GRID == 24

\* EPSILON = 0.0001 mm, in export units
EPSILON == 1

\* export units in one millimetre (1 / EPSILON)
UNITS_PER_MM == 10000

ToUnits(mm) == mm * UNITS_PER_MM

\* PAPER_SIZES 'a5' in portrait (sheetDimensions of App)
PaperA5 == [widthMm |-> 148, heightMm |-> 210]

\* PAPER_SIZES 'a4' in portrait, the paper of App's initial state
PaperA4 == [widthMm |-> 210, heightMm |-> 297]

-----------------------------------------------------------------------------
(* Bounds of the model *)

\* longest rectangle list
MaxObjects == 4

\* the rectangle sizes the inputs are drawn from (widthMm, heightMm)
RectKinds ==
    { <<100, 10>>, <<70, 10>>, <<40, 40>>, <<80, 200>>,
      <<3552, 10>>, <<3600, 10>> }

SheetChoices == { PaperA5 }

\* ids are unique: the object at position i of the caller's list has id i
MkObject(i, kind) == [id |-> i, widthMm |-> kind[1], heightMm |-> kind[2]]

ObjectLists ==
    UNION { { [i \in 1..n |-> MkObject(i, f[i])] : f \in [1..n -> RectKinds] }
            : n \in 0..MaxObjects }

-----------------------------------------------------------------------------
(* Arithmetic helpers *)

Max(a, b) == IF a >= b THEN a ELSE b

Min(a, b) == IF a <= b THEN a ELSE b

\* Math.ceil(a / b) for a >= 0, b > 0
CeilDiv(a, b) == (a + b - 1) \div b

RECURSIVE SumArea(_)
SumArea(rects) ==
    IF rects = <<>> THEN 0
    ELSE rects[1].widthMm * rects[1].heightMm + SumArea(Tail(rects))

RECURSIVE MaxWidthOf(_)
MaxWidthOf(rects) ==
    IF rects = <<>> THEN 0
    ELSE Max(rects[1].widthMm, MaxWidthOf(Tail(rects)))

-----------------------------------------------------------------------------
(* packWithinWidth *)

\* the locals before the loop
PackInit ==
    [ shelves |-> <<>>,
      placements |-> <<>>,      \* the Map: a function from ids to placements
      shelfOf |-> <<>>,         \* history: id -> index of the shelf it was put on
      totalHeightMm |-> 0,
      maxUsedWidthMm |-> 0,
      failed |-> FALSE ]

\* (mutant) the width check without the tolerance and with >= for >
TooWideOrEqual(rect, maxW) == rect.widthMm >= maxW

\* (mutant) the width check without the tolerance
TooWideNoTolerance(rect, maxW) == rect.widthMm > maxW

\* rect.widthMm > maxWidthMm + EPSILON
TooWide(rect, maxW) == rect.widthMm * lengthUnit > maxW * lengthUnit + EPSILON

\* (mutant) the fit test on the rectangle's width alone, the shelf's used
\* width forgotten
FitsOnEmptyShelf(shelf, rect, maxW) ==
    rect.widthMm * lengthUnit <= maxW * lengthUnit + EPSILON

\* projectedWidth <= maxWidthMm + EPSILON
FitsOn(shelf, rect, maxW) ==
    (shelf.usedWidthMm + rect.widthMm) * lengthUnit <= maxW * lengthUnit + EPSILON

\* the scan of the shelves: index is the next shelf to look at, bestIdx = 0
\* while tightestRemaining is still +Infinity
RECURSIVE ScanShelves(_, _, _, _, _, _)
ScanShelves(shelves, rect, maxW, index, bestIdx, tightest) ==
    IF index > Len(shelves) THEN bestIdx
    ELSE LET projectedWidth == shelves[index].usedWidthMm + rect.widthMm
             remaining == maxW - projectedWidth
         IN IF FitsOn(shelves[index], rect, maxW)
               /\ (bestIdx = 0 \/ remaining < tightest)
            THEN ScanShelves(shelves, rect, maxW, index + 1, index, remaining)
            ELSE ScanShelves(shelves, rect, maxW, index + 1, bestIdx, tightest)

\* (mutant) first fit: the earliest shelf that fits, not the tightest
FirstFitShelf(shelves, rect, maxW) ==
    LET fit == { s \in 1..Len(shelves) : FitsOn(shelves[s], rect, maxW) }
    IN IF fit = {} THEN 0 ELSE CHOOSE s \in fit : \A t \in fit : s <= t

\* (mutant) no shelf is ever reused
NewShelfAlways(shelves, rect, maxW) == 0

BestShelfIndex(shelves, rect, maxW) == ScanShelves(shelves, rect, maxW, 1, 0, 0)

\* (mutant) a map that keeps its last entry only
MapSetForgetful(map, id, p) == [k \in {id} |-> p]

\* placements.set(id, p)
MapSet(map, id, p) ==
    [k \in (DOMAIN map) \cup {id} |-> IF k = id THEN p ELSE map[k]]

\* no shelf fits: open a new one at the running total height
OpenShelf(st, rect) ==
    LET newShelf == [yMm |-> st.totalHeightMm, heightMm |-> rect.heightMm,
                     usedWidthMm |-> rect.widthMm]
    IN [ st EXCEPT
           !.shelves = Append(@, newShelf),
           !.placements = MapSet(@, rect.id, [xMm |-> 0, yMm |-> newShelf.yMm]),
           !.shelfOf = MapSet(@, rect.id, Len(st.shelves) + 1),
           !.totalHeightMm = @ + rect.heightMm,
           !.maxUsedWidthMm = Max(@, rect.widthMm) ]

\* (mutant) the shelf grows but the later shelves stay where they are
GrowShelvesNoShift(shelves, b, rect) ==
    [ i \in 1..Len(shelves) |->
        IF i = b
        THEN [ yMm |-> shelves[i].yMm,
               heightMm |-> Max(shelves[i].heightMm, rect.heightMm),
               usedWidthMm |-> shelves[i].usedWidthMm + rect.widthMm ]
        ELSE shelves[i] ]

\* the shelves after shelf b has taken rect: b is widened, and when rect is
\* taller than b, b grows and every later shelf moves down by the difference
GrowShelves(shelves, b, rect) ==
    LET deltaHeight == rect.heightMm - shelves[b].heightMm
    IN [ i \in 1..Len(shelves) |->
           IF i = b
           THEN [ yMm |-> shelves[i].yMm,
                  heightMm |-> Max(shelves[i].heightMm, rect.heightMm),
                  usedWidthMm |-> shelves[i].usedWidthMm + rect.widthMm ]
           ELSE IF i > b /\ deltaHeight > 0
           THEN [ shelves[i] EXCEPT !.yMm = @ + deltaHeight ]
           ELSE shelves[i] ]

\* (mutant) the rectangle is put at the left edge of the shelf
PlaceOnShelfAtOrigin(st, b, rect) ==
    MapSet(st.placements, rect.id, [xMm |-> 0, yMm |-> st.shelves[b].yMm])

\* the placement map after rect went on shelf b: only rect's own entry is set;
\* the entries of rectangles on later shelves keep the y they were given
PlaceOnShelfPlacements(st, b, rect) ==
    MapSet(st.placements, rect.id,
           [xMm |-> st.shelves[b].usedWidthMm, yMm |-> st.shelves[b].yMm])

PlaceOnShelf(st, b, rect) ==
    LET deltaHeight == rect.heightMm - st.shelves[b].heightMm
    IN [ st EXCEPT
           !.shelves = GrowShelves(st.shelves, b, rect),
           !.placements = PlaceOnShelfPlacements(st, b, rect),
           !.shelfOf = MapSet(@, rect.id, b),
           !.totalHeightMm = IF deltaHeight > 0 THEN @ + deltaHeight ELSE @,
           !.maxUsedWidthMm = Max(@, st.shelves[b].usedWidthMm + rect.widthMm) ]

\* one iteration of the for-of loop
PackStep(st, rect, maxW) ==
    IF TooWide(rect, maxW) THEN [st EXCEPT !.failed = TRUE]
    ELSE LET b == BestShelfIndex(st.shelves, rect, maxW)
         IN IF b = 0 THEN OpenShelf(st, rect) ELSE PlaceOnShelf(st, b, rect)

\* the value returned after the loop
PackReturn(st, maxW) ==
    LET n == Len(st.shelves)
        heightExtent == IF n = 0 THEN 0 ELSE st.shelves[n].yMm + st.shelves[n].heightMm
    IN [ placements |-> st.placements,
         totalHeightMm |-> Max(st.totalHeightMm, heightExtent),
         usedWidthMm |-> Min(maxW, st.maxUsedWidthMm) ]

RECURSIVE PackLoop(_, _, _, _)
PackLoop(st, rects, i, maxW) ==
    IF st.failed \/ i > Len(rects) THEN st
    ELSE PackLoop(PackStep(st, rects[i], maxW), rects, i + 1, maxW)

\* packWithinWidth as a function: <<>> for null, <<packing>> otherwise
PackWithinWidth(rects, maxW) ==
    LET st == PackLoop(PackInit, rects, 1, maxW)
    IN IF st.failed THEN <<>> ELSE <<PackReturn(st, maxW)>>

-----------------------------------------------------------------------------
(* optimisePackingLayout *)

\* the comparator of the sort: negative when a goes first
SortCompare(a, b) ==
    LET aKey == Max(a.widthMm, a.heightMm)
        bKey == Max(b.widthMm, b.heightMm)
    IN IF bKey # aKey THEN bKey - aKey
       ELSE IF b.heightMm - a.heightMm # 0 THEN b.heightMm - a.heightMm
       ELSE b.widthMm - a.widthMm

\* Array.prototype.sort is stable: x goes after every element that does not
\* compare greater than it
RECURSIVE InsertSorted(_, _)
InsertSorted(s, x) ==
    IF s = <<>> THEN <<x>>
    ELSE IF SortCompare(s[1], x) <= 0 THEN <<s[1]>> \o InsertSorted(Tail(s), x)
    ELSE <<x>> \o s

\* (mutant) the copy is not sorted
UnsortedCopy(s) == s

RECURSIVE SortObjects(_)
SortObjects(s) ==
    IF s = <<>> THEN <<>>
    ELSE InsertSorted(SortObjects(SubSeq(s, 1, Len(s) - 1)), s[Len(s)])

\* (mutant) the lower bound of the search rounded down
MinimumColumnsFloor(rects, sheetW) == Max(1, MaxWidthOf(rects) \div sheetW)

MinimumColumns(rects, sheetW) == Max(1, CeilDiv(MaxWidthOf(rects), sheetW))

\* (mutant) the upper bound of the search without the Math.max
MaximumColumnsFixed(minimumColumns) == MAX_SHEET_GRID

MaximumColumns(minimumColumns) == Max(minimumColumns, MAX_SHEET_GRID)

\* (mutant) the rows rounded down
RowsForFloor(totalHeight, sheetH) == Max(1, totalHeight \div sheetH)

\* rows of a candidate
RowsFor(totalHeight, sheetH) == Max(1, CeilDiv(totalHeight, sheetH))

\* (mutant) the waste computed from one row of sheets only
CandidateOneRow(cols, packing, sheetW, sheetH, totalArea) ==
    LET rows == RowsFor(packing.totalHeightMm, sheetH)
        maxLayoutWidth == cols * sheetW
    IN [ columns |-> cols,
         rows |-> rows,
         placements |-> packing.placements,
         layoutWidthMm |-> Min(maxLayoutWidth, Max(sheetW, packing.usedWidthMm)),
         layoutHeightMm |-> Max(packing.totalHeightMm, rows * sheetH),
         wasteArea |-> cols * sheetW * sheetH - totalArea,
         totalHeightMm |-> packing.totalHeightMm ]

\* the candidate built from a successful packing at a column count
Candidate(cols, packing, sheetW, sheetH, totalArea) ==
    LET rows == RowsFor(packing.totalHeightMm, sheetH)
        maxLayoutWidth == cols * sheetW
    IN [ columns |-> cols,
         rows |-> rows,
         placements |-> packing.placements,
         layoutWidthMm |-> Min(maxLayoutWidth, Max(sheetW, packing.usedWidthMm)),
         layoutHeightMm |-> Max(packing.totalHeightMm, rows * sheetH),
         wasteArea |-> cols * rows * sheetW * sheetH - totalArea,
         totalHeightMm |-> packing.totalHeightMm ]   \* packing.totalHeightMm, read by the test below

\* (mutant) the first feasible candidate is kept: an early exit
ReplacesFirstOnly(cand, cur) == cur = <<>>

\* (mutant) the replacement test without the tie-break: only a waste smaller
\* by more than 0.5 mm^2 replaces
ReplacesOnLessWaste(cand, cur) ==
    \/ cur = <<>>
    \/ /\ cur # <<>>
       /\ 2 * cand.wasteArea < 2 * cur[1].wasteArea - 1

\* the replacement test; areas are whole mm^2, and the 0.5 mm^2 margin is
\* written doubled: w < b - 0.5 is 2w < 2b - 1, and |w - b| < 0.5 is |2w - 2b| < 1
Replaces(cand, cur) ==
    \/ cur = <<>>
    \/ /\ cur # <<>>
       /\ LET b == cur[1]
              diff2 == 2 * cand.wasteArea - 2 * b.wasteArea
              absDiff2 == IF diff2 < 0 THEN -diff2 ELSE diff2
          IN \/ 2 * cand.wasteArea < 2 * b.wasteArea - 1
             \/ /\ absDiff2 < 1
                /\ \/ cand.rows < b.rows
                   \/ /\ cand.rows = b.rows
                      /\ \/ cand.columns < b.columns
                         \/ /\ cand.columns = b.columns
                            /\ cand.totalHeightMm < b.layoutHeightMm

\* the stored PackingResult (without the model's totalHeightMm field)
AsResult(cand) ==
    [ columns |-> cand.columns, rows |-> cand.rows, placements |-> cand.placements,
      layoutWidthMm |-> cand.layoutWidthMm, layoutHeightMm |-> cand.layoutHeightMm,
      wasteArea |-> cand.wasteArea ]

-----------------------------------------------------------------------------
(* SpecOpt: optimisePackingLayout on bounded inputs *)

AppOff ==
    /\ appObjects = <<>>
    /\ sheetColumns = 0
    /\ sheetRows = 0
    /\ sheetDimensions = [widthMm |-> 0, heightMm |-> 0]
    /\ formError = {}
    /\ alertShown = "none"
    /\ appEvent = "off"
    /\ paperSizeId = "a4"
    /\ orientation = "portrait"
    /\ reads = {}
    /\ nextId = 1
    /\ appSteps = 0

ExportOff ==
    /\ expObjects = <<>>
    /\ sheet = [w |-> 0, h |-> 0]
    /\ gridColumns = 0
    /\ gridRows = 0
    /\ decode = <<>>
    /\ textures = {}
    /\ expPc = "off"
    /\ rowIndex = 0
    /\ columnIndex = 0
    /\ docPages = <<>>
    /\ hasAnyPage = FALSE
    /\ saved = FALSE

PackOff ==
    /\ rectangles = <<>>
    /\ maxWidthMm = 0
    /\ lengthUnit = UNITS_PER_MM
    /\ pk = PackInit
    /\ packIndex = 0
    /\ packPc = "off"

OptInit ==
    /\ objects \in ObjectLists
    /\ \E paper \in SheetChoices :
          /\ sheetWidthMm = paper.widthMm
          /\ sheetHeightMm = paper.heightMm
    /\ sorted = <<>>
    /\ columns = 0
    /\ best = <<>>
    /\ evaluated = <<>>
    /\ optPc = "start"
    /\ PackOff
    /\ ExportOff
    /\ AppOff

\* history: the ids of a list handed to packWithinWidth, in its order
IdsOf(rects) == [i \in 1..Len(rects) |-> rects[i].id]

\* entry: the empty check, the sort, and the loop bounds
OptBegin ==
    /\ optPc = "start"
    /\ IF Len(objects) = 0
       THEN /\ optPc' = "done"
            /\ UNCHANGED <<sorted, columns>>
       ELSE /\ sorted' = SortObjects(objects)
            /\ columns' = MinimumColumns(SortObjects(objects), sheetWidthMm)
            /\ optPc' = "loop"
    /\ UNCHANGED <<objects, sheetWidthMm, sheetHeightMm, best, evaluated, packVars, expVars, appVars>>

\* one iteration of the loop over the column counts
OptCandidate ==
    /\ optPc = "loop"
    /\ columns <= MaximumColumns(MinimumColumns(sorted, sheetWidthMm))
    /\ LET packing == PackWithinWidth(sorted, columns * sheetWidthMm)
       IN IF packing = <<>>
          THEN /\ evaluated' = Append(evaluated, [columns |-> columns, feasible |-> FALSE,
                                                  rows |-> 0, wasteArea |-> 0,
                                                  order |-> IdsOf(sorted)])
               /\ UNCHANGED best
          ELSE LET cand == Candidate(columns, packing[1], sheetWidthMm, sheetHeightMm,
                                     SumArea(sorted))
               IN /\ evaluated' = Append(evaluated, [columns |-> columns, feasible |-> TRUE,
                                                     rows |-> cand.rows,
                                                     wasteArea |-> cand.wasteArea,
                                                     order |-> IdsOf(sorted)])
                  /\ best' = IF Replaces(cand, best) THEN <<AsResult(cand)>> ELSE best
    /\ columns' = columns + 1
    /\ UNCHANGED <<objects, sheetWidthMm, sheetHeightMm, sorted, optPc, packVars, expVars, appVars>>

\* the loop ends: return best
OptReturn ==
    /\ optPc = "loop"
    /\ columns > MaximumColumns(MinimumColumns(sorted, sheetWidthMm))
    /\ optPc' = "done"
    /\ UNCHANGED <<objects, sheetWidthMm, sheetHeightMm, sorted, columns, best, evaluated,
                   packVars, expVars, appVars>>

OptNext == OptBegin \/ OptCandidate \/ OptReturn

SpecOpt == OptInit /\ [][OptNext]_vars

-----------------------------------------------------------------------------
(* exportLayoutToPdf: texture loading, tiling, page emission.              *)
(* Lengths are in units of 0.0001 mm.  A source crop is kept exactly, as   *)
(* numerators over the object's width (sx, sWidth) and height (sy,         *)
(* sHeight): scaleX = widthPx / object.w, so sx = sxNum / object.w.        *)

\* largest grid of the inputs
MaxGridColumns == 3

MaxGridRows == 2

\* longest object list of the inputs
MaxExportObjects == 2

SheetA5 == [w |-> ToUnits(PaperA5.widthMm), h |-> ToUnits(PaperA5.heightMm)]

\* the objects the inputs are drawn from: position and size in units, whether a
\* texture is attached, and the natural size of its image in pixels
ExportKinds ==
    { \* 300 x 10 mm at the origin, a 50 x 20 px texture
      [x |-> 0, y |-> 0, w |-> ToUnits(300), h |-> ToUnits(10),
       textureSrc |-> TRUE, widthPx |-> 50, heightPx |-> 20],
      \* starts 0.0001 mm before the first column's right edge
      [x |-> SheetA5.w - 1, y |-> 0, w |-> ToUnits(50), h |-> ToUnits(50),
       textureSrc |-> FALSE, widthPx |-> 0, heightPx |-> 0],
      \* starts 0.0002 mm before the corner of the first cell
      [x |-> SheetA5.w - 2, y |-> SheetA5.h - 2, w |-> ToUnits(20), h |-> ToUnits(20),
       textureSrc |-> TRUE, widthPx |-> 40, heightPx |-> 40],
      \* wholly left of the grid
      [x |-> 0 - ToUnits(200), y |-> 0, w |-> ToUnits(100), h |-> ToUnits(100),
       textureSrc |-> FALSE, widthPx |-> 0, heightPx |-> 0],
      \* starts exactly on the first column's right edge
      [x |-> SheetA5.w, y |-> 0, w |-> ToUnits(200), h |-> ToUnits(100),
       textureSrc |-> FALSE, widthPx |-> 0, heightPx |-> 0] }

MkExportObject(i, kind) ==
    [id |-> i, x |-> kind.x, y |-> kind.y, w |-> kind.w, h |-> kind.h,
     textureSrc |-> kind.textureSrc, widthPx |-> kind.widthPx, heightPx |-> kind.heightPx]

ExportObjectLists ==
    UNION { { [i \in 1..n |-> MkExportObject(i, f[i])] : f \in [1..n -> ExportKinds] }
            : n \in 0..MaxExportObjects }

ExportIds == 1..Len(expObjects)

\* objects.filter((object) => object.textureSrc)
TexturedIds == { i \in ExportIds : expObjects[i].textureSrc }

\* (mutant) the join of Promise.allSettled: failures do not reject
AllSettled == \A i \in TexturedIds : decode[i] \in {"loaded", "failed"}

\* (mutant) the join of Promise.any: the first decode resolves it
AnyDecoded == TexturedIds = {} \/ \E i \in TexturedIds : decode[i] = "loaded"

\* Promise.all resolves: every loader has set its texture
AllDecoded == \A i \in TexturedIds : decode[i] = "loaded"

\* Promise.all rejects: some loader has failed
SomeDecodeFailed == \E i \in TexturedIds : decode[i] = "failed"

\* (mutant) the right edge of the intersection, not clipped to the cell
InterRightUnclipped(object, originX) == object.x + object.w

\* (mutant) the left edge of the intersection, not clipped to the cell
InterLeftUnclipped(object, originX) == object.x

InterLeft(object, originX) == Max(object.x, originX)

InterTop(object, originY) == Max(object.y, originY)

InterRight(object, originX) == Min(object.x + object.w, originX + sheet.w)

InterBottom(object, originY) == Min(object.y + object.h, originY + sheet.h)

\* the source rectangle of a textured segment
SourceCrop(object, interLeft, interTop, interWidth, interHeight) ==
    LET sxNum == Max(0, (interLeft - object.x) * object.widthPx)
        syNum == Max(0, (interTop - object.y) * object.heightPx)
    IN [ sxNum |-> sxNum,
         syNum |-> syNum,
         sWidthNum |-> Max(object.w,
                           Min(object.widthPx * object.w - sxNum, interWidth * object.widthPx)),
         sHeightNum |-> Max(object.h,
                            Min(object.heightPx * object.h - syNum,
                                interHeight * object.heightPx)) ]

\* (mutant) the destination in global coordinates
RelativeGlobal(inter, origin) == inter

\* relativeX = interLeft - originX, relativeY = interTop - originY
Relative(inter, origin) == inter - origin

\* (mutant) only an intersection of negative extent is skipped
SkippedIfNegative(interWidth, interHeight) == interWidth < 0 \/ interHeight < 0

\* interWidth <= EPSILON || interHeight <= EPSILON
Skipped(interWidth, interHeight) == interWidth <= EPSILON \/ interHeight <= EPSILON

\* what one object pushes on drawCommands for the cell (row, col): nothing, or
\* one command.  id, row and col record where the command comes from.
DrawCommandsOf(object, row, col) ==
    LET originX == col * sheet.w
        originY == row * sheet.h
        interLeft == InterLeft(object, originX)
        interTop == InterTop(object, originY)
        interWidth == InterRight(object, originX) - interLeft
        interHeight == InterBottom(object, originY) - interTop
    IN IF Skipped(interWidth, interHeight) THEN <<>>
       ELSE << [ id |-> object.id, row |-> row, col |-> col,
                 x |-> Relative(interLeft, originX),
                 y |-> Relative(interTop, originY),
                 w |-> interWidth,
                 h |-> interHeight,
                 crop |-> IF object.id \in textures
                          THEN << SourceCrop(object, interLeft, interTop,
                                             interWidth, interHeight) >>
                          ELSE <<>> ] >>

\* objects.forEach over one cell
RECURSIVE CellCommandsFrom(_, _, _)
CellCommandsFrom(i, row, col) ==
    IF i > Len(expObjects) THEN <<>>
    ELSE DrawCommandsOf(expObjects[i], row, col) \o CellCommandsFrom(i + 1, row, col)

CellCommands(row, col) == CellCommandsFrom(1, row, col)

\* (mutant) every non-empty cell adds a page, the first one too
DrawCellAlwaysAddPage(pages, anyPage, commands) ==
    IF commands = <<>> THEN pages ELSE Append(pages, commands)

\* the pages after a cell: a non-empty cell draws on the document's first page
\* when no page was used yet, and on a page it adds otherwise
DrawCell(pages, anyPage, commands) ==
    IF commands = <<>> THEN pages
    ELSE IF ~anyPage THEN [pages EXCEPT ![Len(pages)] = @ \o commands]
    ELSE Append(pages, commands)

-----------------------------------------------------------------------------
(* SpecExport: one call of exportLayoutToPdf on bounded inputs *)

OptOff ==
    /\ objects = <<>>
    /\ sheetWidthMm = 0
    /\ sheetHeightMm = 0
    /\ sorted = <<>>
    /\ columns = 0
    /\ best = <<>>
    /\ evaluated = <<>>
    /\ optPc = "off"

ExportInit ==
    /\ expObjects \in ExportObjectLists
    /\ sheet = SheetA5
    /\ gridColumns \in 1..MaxGridColumns
    /\ gridRows \in 1..MaxGridRows
    /\ decode = [i \in 1..Len(expObjects) |-> "none"]
    /\ textures = {}
    /\ expPc = "call"
    /\ rowIndex = 0
    /\ columnIndex = 0
    /\ docPages = <<>>
    /\ hasAnyPage = FALSE
    /\ saved = FALSE
    /\ PackOff
    /\ OptOff
    /\ AppOff

\* the call with no objects: alert and return
ExportNoObjects ==
    /\ expPc = "call"
    /\ Len(expObjects) = 0
    /\ expPc' = "alertEmpty"
    /\ UNCHANGED <<expObjects, sheet, gridColumns, gridRows, decode, textures, rowIndex,
                   columnIndex, docPages, hasAnyPage, saved, packVars, optVars, appVars>>

\* the call: every textured object's loadImage is started, then Promise.all is awaited
ExportCall ==
    /\ expPc = "call"
    /\ Len(expObjects) > 0
    /\ decode' = [i \in ExportIds |-> IF i \in TexturedIds THEN "pending" ELSE "none"]
    /\ expPc' = "awaitTextures"
    /\ UNCHANGED <<expObjects, sheet, gridColumns, gridRows, textures, rowIndex,
                   columnIndex, docPages, hasAnyPage, saved, packVars, optVars, appVars>>

\* image.onload: the loader resumes and sets its texture
DecodeLoaded(i) ==
    /\ decode[i] = "pending"
    /\ decode' = [decode EXCEPT ![i] = "loaded"]
    /\ textures' = textures \cup {i}
    /\ UNCHANGED <<expObjects, sheet, gridColumns, gridRows, expPc, rowIndex,
                   columnIndex, docPages, hasAnyPage, saved, packVars, optVars, appVars>>

\* image.onerror: the loader rejects
DecodeFailed(i) ==
    /\ decode[i] = "pending"
    /\ decode' = [decode EXCEPT ![i] = "failed"]
    /\ UNCHANGED <<expObjects, sheet, gridColumns, gridRows, textures, expPc, rowIndex,
                   columnIndex, docPages, hasAnyPage, saved, packVars, optVars, appVars>>

\* Promise.all rejected: the catch block alerts and returns
TexturesRejected ==
    /\ expPc = "awaitTextures"
    /\ SomeDecodeFailed
    /\ expPc' = "alertTexture"
    /\ UNCHANGED <<expObjects, sheet, gridColumns, gridRows, decode, textures, rowIndex,
                   columnIndex, docPages, hasAnyPage, saved, packVars, optVars, appVars>>

\* Promise.all resolved: the document (with its first page) and the scratch
\* canvas are created, and the tiling starts
TexturesResolved ==
    /\ expPc = "awaitTextures"
    /\ AllDecoded
    /\ docPages' = << <<>> >>
    /\ expPc' = "tiling"
    /\ rowIndex' = 0
    /\ columnIndex' = 0
    /\ hasAnyPage' = FALSE
    /\ UNCHANGED <<expObjects, sheet, gridColumns, gridRows, decode, textures, saved,
                   packVars, optVars, appVars>>

\* Promise.all resolved, but getContext('2d') gave null: alert and return
NoScratchContext ==
    /\ expPc = "awaitTextures"
    /\ AllDecoded
    /\ docPages' = << <<>> >>
    /\ expPc' = "alertCanvas"
    /\ UNCHANGED <<expObjects, sheet, gridColumns, gridRows, decode, textures, rowIndex,
                   columnIndex, hasAnyPage, saved, packVars, optVars, appVars>>

\* one cell of the row-major double loop
TileCell ==
    /\ expPc = "tiling"
    /\ rowIndex < gridRows
    /\ LET commands == CellCommands(rowIndex, columnIndex)
       IN /\ docPages' = DrawCell(docPages, hasAnyPage, commands)
          /\ hasAnyPage' = (hasAnyPage \/ commands # <<>>)
    /\ IF columnIndex + 1 < gridColumns
       THEN /\ columnIndex' = columnIndex + 1
            /\ UNCHANGED rowIndex
       ELSE /\ columnIndex' = 0
            /\ rowIndex' = rowIndex + 1
    /\ UNCHANGED <<expObjects, sheet, gridColumns, gridRows, decode, textures, expPc, saved,
                   packVars, optVars, appVars>>

\* after the loops, nothing was drawn: alert and return
ExportNothing ==
    /\ expPc = "tiling"
    /\ rowIndex >= gridRows
    /\ ~hasAnyPage
    /\ expPc' = "alertNothing"
    /\ UNCHANGED <<expObjects, sheet, gridColumns, gridRows, decode, textures, rowIndex,
                   columnIndex, docPages, hasAnyPage, saved, packVars, optVars, appVars>>

\* after the loops: doc.save
ExportSave ==
    /\ expPc = "tiling"
    /\ rowIndex >= gridRows
    /\ hasAnyPage
    /\ saved' = TRUE
    /\ expPc' = "saved"
    /\ UNCHANGED <<expObjects, sheet, gridColumns, gridRows, decode, textures, rowIndex,
                   columnIndex, docPages, hasAnyPage, packVars, optVars, appVars>>

ExportNext ==
    \/ ExportNoObjects
    \/ ExportCall
    \/ \E i \in ExportIds : DecodeLoaded(i)
    \/ \E i \in ExportIds : DecodeFailed(i)
    \/ TexturesRejected
    \/ TexturesResolved
    \/ NoScratchContext
    \/ TileCell
    \/ ExportNothing
    \/ ExportSave

SpecExport == ExportInit /\ [][ExportNext]_vars

-----------------------------------------------------------------------------
(* SpecPack: packWithinWidth on its own, one rectangle per step, on any     *)
(* ordered input                                                            *)

\* the width bounds of the inputs: one sheet of A5, one sheet of A4
PackWidths == { PaperA5.widthMm, PaperA4.widthMm }

\* the rectangle sizes of the packer's inputs (width, height): the sizes of
\* scenario A, a narrow tall one, and two that are one and two length units
\* wider than the A5 bound
PackKinds ==
    { <<100, 50>>, <<100, 100>>, <<40, 60>>,
      <<PaperA5.widthMm + 1, 10>>, <<PaperA5.widthMm + 2, 10>> }

PackLists ==
    UNION { { [i \in 1..n |-> MkObject(i, f[i])] : f \in [1..n -> PackKinds] }
            : n \in 0..MaxObjects }

\* the numbers are whole millimetres, or lengths one EPSILON apart
PackUnits == { UNITS_PER_MM, EPSILON }

PackStart ==
    /\ rectangles \in PackLists
    /\ maxWidthMm \in PackWidths
    /\ lengthUnit \in PackUnits
    /\ pk = PackInit
    /\ packIndex = 1
    /\ packPc = "loop"
    /\ OptOff
    /\ ExportOff
    /\ AppOff

\* one iteration of the for-of loop: the rectangle is placed, or the call
\* returns null
PackIterate ==
    /\ packPc = "loop"
    /\ packIndex <= Len(rectangles)
    /\ pk' = PackStep(pk, rectangles[packIndex], maxWidthMm)
    /\ packPc' = IF TooWide(rectangles[packIndex], maxWidthMm) THEN "nofit" ELSE "loop"
    /\ packIndex' = packIndex + 1
    /\ UNCHANGED <<rectangles, maxWidthMm, lengthUnit, optVars, expVars, appVars>>

\* the loop is over: the packing is returned
PackFinish ==
    /\ packPc = "loop"
    /\ packIndex > Len(rectangles)
    /\ packPc' = "done"
    /\ UNCHANGED <<rectangles, maxWidthMm, lengthUnit, pk, packIndex, optVars, expVars, appVars>>

PackNext == PackIterate \/ PackFinish

SpecPack == PackStart /\ [][PackNext]_vars

-----------------------------------------------------------------------------
(* Properties of optimisePackingLayout (SpecOpt) *)

OptDone == optPc = "done"

Returned == OptDone /\ best # <<>>

ObjectIndexes == 1..Len(objects)

\* the rectangles [x, x+width) x [y, y+height) of objects i and j intersect
Overlap(placements, i, j) ==
    LET a == objects[i]
        b == objects[j]
        pa == placements[a.id]
        pb == placements[b.id]
    IN /\ pa.xMm < pb.xMm + b.widthMm
       /\ pb.xMm < pa.xMm + a.widthMm
       /\ pa.yMm < pb.yMm + b.heightMm
       /\ pb.yMm < pa.yMm + a.heightMm

AllFitInGrid == \A i \in ObjectIndexes : objects[i].widthMm <= MAX_SHEET_GRID * sheetWidthMm

\* C1: in the placement map optimisePackingLayout returns, no two distinct
\* rectangles overlap, also after a shelf was enlarged by a taller rectangle.
C1_NoOverlap ==
    Returned =>
        \A i, j \in ObjectIndexes : i < j => ~Overlap(best[1].placements, i, j)

\* C2: a non-empty list whose rectangles are all at most 24 sheets wide gets a
\* result, with 1 <= columns <= 24 and rows >= 1.
C2_FeasibleWithinGrid ==
    (OptDone /\ Len(objects) > 0 /\ AllFitInGrid) =>
        /\ best # <<>>
        /\ 1 <= best[1].columns
        /\ best[1].columns <= MAX_SHEET_GRID
        /\ best[1].rows >= 1

\* C2 witness: a rectangle exactly 24 sheets wide was laid out
C2_Witness ==
    /\ Returned
    /\ AllFitInGrid
    /\ \E i \in ObjectIndexes : objects[i].widthMm = MAX_SHEET_GRID * sheetWidthMm

FirstColumn ==
    CHOOSE c \in 1..(MAX_SHEET_GRID + 8) :
        /\ \A i \in ObjectIndexes : objects[i].widthMm <= c * sheetWidthMm
        /\ c > 1 => \E i \in ObjectIndexes : objects[i].widthMm > (c - 1) * sheetWidthMm

LastColumn == IF FirstColumn > MAX_SHEET_GRID THEN FirstColumn ELSE MAX_SHEET_GRID

\* C4: every column count of the range was evaluated before returning, and no
\* feasible one has a waste smaller than the returned one by more than 0.5 mm^2.
C4_LeastWaste ==
    Returned =>
        /\ Len(evaluated) = LastColumn - FirstColumn + 1
        /\ \A k \in 1..Len(evaluated) :
              /\ evaluated[k].columns = FirstColumn + k - 1
              /\ evaluated[k].feasible =>
                    2 * evaluated[k].wasteArea >= 2 * best[1].wasteArea - 1

\* C4 witness: the first feasible candidate was beaten by a later one
C4_Witness ==
    /\ Returned
    /\ evaluated[1].feasible
    /\ best[1].columns > evaluated[1].columns
    /\ best[1].wasteArea < evaluated[1].wasteArea

-----------------------------------------------------------------------------
(* Properties of exportLayoutToPdf (SpecExport) *)

RECURSIVE Flatten(_)
Flatten(pages) == IF pages = <<>> THEN <<>> ELSE pages[1] \o Flatten(Tail(pages))

\* every draw command of the document, in drawing order
AllCommands == Flatten(docPages)

\* the commands drawn for object i
Pieces(i) == { k \in 1..Len(AllCommands) : AllCommands[k].id = i }

\* a command's rectangle, translated back to layout coordinates
GlobalX(c) == c.col * sheet.w + c.x

GlobalY(c) == c.row * sheet.h + c.y

\* the tiling loops have run to their end
TilingDone == expPc \in {"saved", "alertNothing"}

\* The plane is cut along the object's edges, the grid lines and the edges of
\* the object's pieces; an elementary interval lies between two neighbouring cuts.
CutsX(i) ==
    {expObjects[i].x, expObjects[i].x + expObjects[i].w}
    \cup { c * sheet.w : c \in 0..gridColumns }
    \cup { GlobalX(AllCommands[k]) : k \in Pieces(i) }
    \cup { GlobalX(AllCommands[k]) + AllCommands[k].w : k \in Pieces(i) }

CutsY(i) ==
    {expObjects[i].y, expObjects[i].y + expObjects[i].h}
    \cup { r * sheet.h : r \in 0..gridRows }
    \cup { GlobalY(AllCommands[k]) : k \in Pieces(i) }
    \cup { GlobalY(AllCommands[k]) + AllCommands[k].h : k \in Pieces(i) }

Intervals(cuts) ==
    { iv \in cuts \X cuts : iv[1] < iv[2] /\ ~\E m \in cuts : iv[1] < m /\ m < iv[2] }

\* the pieces of object i that cover the elementary rectangle ix x iy
Covering(i, ix, iy) ==
    { k \in Pieces(i) :
        /\ GlobalX(AllCommands[k]) <= ix[1]
        /\ ix[2] <= GlobalX(AllCommands[k]) + AllCommands[k].w
        /\ GlobalY(AllCommands[k]) <= iy[1]
        /\ iy[2] <= GlobalY(AllCommands[k]) + AllCommands[k].h }

\* ix x iy lies in the object's bounding rectangle and in the grid extent
InObjectAndGrid(i, ix, iy) ==
    LET o == expObjects[i]
    IN /\ Max(o.x, 0) <= ix[1]
       /\ ix[2] <= Min(o.x + o.w, gridColumns * sheet.w)
       /\ Max(o.y, 0) <= iy[1]
       /\ iy[2] <= Min(o.y + o.h, gridRows * sheet.h)

\* ix x iy (inside the grid) lies in a cell where the object's part is at most
\* EPSILON wide or high
InSliver(i, ix, iy) ==
    LET o == expObjects[i]
        c == ix[1] \div sheet.w
        r == iy[1] \div sheet.h
        partWidth == Min(o.x + o.w, (c + 1) * sheet.w) - Max(o.x, c * sheet.w)
        partHeight == Min(o.y + o.h, (r + 1) * sheet.h) - Max(o.y, r * sheet.h)
    IN partWidth <= EPSILON \/ partHeight <= EPSILON

\* C6 as stated: the pieces of an object do not overlap and cover exactly the
\* object's rectangle intersected with the grid extent.
C6_ExactPartition ==
    TilingDone =>
        \A i \in ExportIds :
            \A ix \in Intervals(CutsX(i)), iy \in Intervals(CutsY(i)) :
                Cardinality(Covering(i, ix, iy)) =
                    IF InObjectAndGrid(i, ix, iy) THEN 1 ELSE 0

\* C6 amended: the pieces of an object do not overlap and cover the object's
\* rectangle intersected with the grid extent, except the cells where the
\* object's part is at most EPSILON wide or high, which get no piece.
C6_PartitionButSlivers ==
    TilingDone =>
        \A i \in ExportIds :
            \A ix \in Intervals(CutsX(i)), iy \in Intervals(CutsY(i)) :
                Cardinality(Covering(i, ix, iy)) =
                    IF InObjectAndGrid(i, ix, iy) /\ ~InSliver(i, ix, iy) THEN 1 ELSE 0

\* C6 witness: an object was cut into four pieces, and another lost a sliver
C6_Witness ==
    /\ TilingDone
    /\ \E i \in ExportIds : Cardinality(Pieces(i)) >= 4
    /\ \E i \in ExportIds :
          \E ix \in Intervals(CutsX(i)), iy \in Intervals(CutsY(i)) :
              InObjectAndGrid(i, ix, iy) /\ InSliver(i, ix, iy)

\* the pages the non-empty cells give, in row-major order from cell number n
RECURSIVE ExpectedPages(_)
ExpectedPages(n) ==
    IF n >= gridColumns * gridRows THEN <<>>
    ELSE LET commands == CellCommands(n \div gridColumns, n % gridColumns)
         IN (IF commands = <<>> THEN <<>> ELSE <<commands>>) \o ExpectedPages(n + 1)

\* C7: the saved document has one page per non-empty cell, in row-major order,
\* each holding that cell's commands, and no blank page.
C7_NoBlankPages ==
    expPc = "saved" =>
        /\ \A k \in 1..Len(docPages) : docPages[k] # <<>>
        /\ Len(docPages) = Len(ExpectedPages(0))
        /\ docPages = ExpectedPages(0)

\* C7 witness: several pages were saved and some cell gave none
C7_Witness ==
    /\ expPc = "saved"
    /\ Len(docPages) >= 2
    /\ Len(docPages) < gridColumns * gridRows
    /\ CellCommands(0, 0) = <<>>

NothingDrawn == \A k \in 1..Len(docPages) : docPages[k] = <<>>

\* C8: once a decode has failed, the export is abandoned: nothing is drawn and
\* the document is never saved, whatever the other decodes do.
C8_AllOrNothing ==
    SomeDecodeFailed =>
        /\ expPc \in {"awaitTextures", "alertTexture"}
        /\ NothingDrawn
        /\ ~saved

\* C8 witness: the export was abandoned with one decode failed and another
\* one completed
C8_Witness ==
    /\ expPc = "alertTexture"
    /\ \E i, j \in TexturedIds : decode[i] = "failed" /\ decode[j] = "loaded"

\* C9: every decode is started before the join is awaited, and nothing is
\* drawn (the tiling does not start) before every decode has completed.
C9_TilingAfterJoin ==
    /\ expPc = "awaitTextures" => \A i \in TexturedIds : decode[i] # "none"
    /\ (expPc \in {"tiling", "saved", "alertNothing", "alertCanvas"} \/ docPages # <<>>) =>
           \A i \in TexturedIds : decode[i] = "loaded" /\ i \in textures

\* C9 witness: a document with two textured objects was saved
C9_Witness ==
    /\ expPc = "saved"
    /\ Cardinality(TexturedIds) >= 2
    /\ \E k \in 1..Len(AllCommands) : AllCommands[k].crop # <<>>

\* C10: the source crop of every textured command is at least one pixel wide
\* and high and lies within the image.
C10_CropWithinSource ==
    \A k \in 1..Len(AllCommands) :
        AllCommands[k].crop # <<>> =>
            LET o == expObjects[AllCommands[k].id]
                crop == AllCommands[k].crop[1]
            IN /\ crop.sxNum >= 0
               /\ crop.syNum >= 0
               /\ crop.sWidthNum >= o.w
               /\ crop.sHeightNum >= o.h
               /\ crop.sxNum + crop.sWidthNum <= o.widthPx * o.w
               /\ crop.syNum + crop.sHeightNum <= o.heightPx * o.h

-----------------------------------------------------------------------------
(* packWithinWidth on its own (SpecPack) *)

\* the rectangles placed so far: the ids are the positions in the input
Placed == DOMAIN pk.placements

\* a length is within the width bound, up to the tolerance
WithinBound(len) == len * lengthUnit <= maxWidthMm * lengthUnit + EPSILON

AnyTooWide == \E i \in 1..Len(rectangles) : ~WithinBound(rectangles[i].widthMm)

\* C12: the packer returns null exactly when some rectangle is wider than
\* maxWidthMm + EPSILON: it returns null only then (whatever the heights, so
\* nothing is rotated to make it fit), and it returns a packing only when no
\* rectangle is that wide.
C12_NoFitIffTooWide ==
    /\ packPc = "nofit" => AnyTooWide /\ pk.failed
    /\ packPc = "done" => ~AnyTooWide /\ ~pk.failed /\ Placed = 1..Len(rectangles)

\* C12 witness: null for a rectangle that would fit if turned by 90 degrees,
\* in the run where a rectangle one EPSILON wider than the bound is accepted
C12_Witness ==
    /\ packPc = "nofit"
    /\ lengthUnit = EPSILON
    /\ \E i, j \in 1..Len(rectangles) :
          /\ ~WithinBound(rectangles[i].widthMm)
          /\ WithinBound(rectangles[i].heightMm)
          /\ j < i
          /\ rectangles[j].widthMm > maxWidthMm
          /\ j \in Placed

\* C13: after every placement, every placed rectangle has x >= 0 and
\* x + width <= maxWidthMm + EPSILON, and every shelf's usedWidthMm is at
\* most maxWidthMm + EPSILON.
C13_WidthBound ==
    /\ \A i \in Placed :
          /\ pk.placements[i].xMm >= 0
          /\ WithinBound(pk.placements[i].xMm + rectangles[i].widthMm)
    /\ \A s \in 1..Len(pk.shelves) : WithinBound(pk.shelves[s].usedWidthMm)

\* C13 witness: a returned packing with a shelf of two rectangles and a
\* rectangle that ends beyond maxWidthMm, within the tolerance
C13_Witness ==
    /\ packPc = "done"
    /\ \E i \in Placed : pk.placements[i].xMm > 0
    /\ \E i \in Placed : pk.placements[i].xMm + rectangles[i].widthMm > maxWidthMm

\* the widths of the rectangles before position i that are on shelf s
RECURSIVE WidthOnShelfBefore(_, _)
WidthOnShelfBefore(s, i) ==
    IF i <= 1 THEN 0
    ELSE WidthOnShelfBefore(s, i - 1)
         + (IF (i - 1) \in Placed /\ pk.shelfOf[i - 1] = s
            THEN rectangles[i - 1].widthMm ELSE 0)

\* C14: a rectangle's x is the sum of the widths put on its shelf before it,
\* so the x-ranges [x, x + width) of two rectangles of one shelf are disjoint.
C14_ShelfRangesDisjoint ==
    /\ \A i \in Placed :
          pk.placements[i].xMm = WidthOnShelfBefore(pk.shelfOf[i], i)
    /\ \A i, j \in Placed :
          (i < j /\ pk.shelfOf[i] = pk.shelfOf[j]) =>
              pk.placements[i].xMm + rectangles[i].widthMm <= pk.placements[j].xMm

\* C14 witness: a returned packing with three rectangles on one shelf and
\* a fourth on another
C14_Witness ==
    /\ packPc = "done"
    /\ \E i, j, k, m \in Placed :
          /\ i < j /\ j < k
          /\ pk.shelfOf[i] = pk.shelfOf[j] /\ pk.shelfOf[j] = pk.shelfOf[k]
          /\ pk.shelfOf[m] # pk.shelfOf[i]

\* the input of scenario A: 100x50, 100x50, 100x100 within the width of A4
ScenarioA ==
    /\ Len(rectangles) = 3
    /\ <<rectangles[1].widthMm, rectangles[1].heightMm>> = <<100, 50>>
    /\ <<rectangles[2].widthMm, rectangles[2].heightMm>> = <<100, 50>>
    /\ <<rectangles[3].widthMm, rectangles[3].heightMm>> = <<100, 100>>
    /\ maxWidthMm = PaperA4.widthMm

\* C17: scenario A returns the two 100x50 on shelf 0 at (0,0) and (100,0)
\* and the 100x100 alone on shelf 1 at (0,50).
C17_ScenarioA ==
    (ScenarioA /\ packPc \in {"done", "nofit"}) =>
        /\ packPc = "done"
        /\ pk.placements = <<[xMm |-> 0, yMm |-> 0], [xMm |-> 100, yMm |-> 0],
                             [xMm |-> 0, yMm |-> 50]>>
        /\ pk.shelfOf = <<1, 1, 2>>
        /\ Len(pk.shelves) = 2
        /\ pk.shelves[2].yMm = 50
        /\ PackReturn(pk, maxWidthMm).totalHeightMm = 150

\* C17 witness: scenario A in whole millimetres has returned
C17_Witness == ScenarioA /\ lengthUnit = UNITS_PER_MM /\ packPc = "done"

-----------------------------------------------------------------------------
(* exportLayoutToPdf: an export with nothing on the grid (SpecExport) *)

\* the object has no point inside the grid of gridColumns x gridRows sheets
OutsideGrid(o) ==
    \/ o.x + o.w <= 0
    \/ o.x >= gridColumns * sheet.w
    \/ o.y + o.h <= 0
    \/ o.y >= gridRows * sheet.h

AllOutside == Len(expObjects) > 0 /\ \A i \in ExportIds : OutsideGrid(expObjects[i])

\* C15: when every object lies outside the grid, no cell draws anything and
\* no page is counted, so that the tiling can only end with "Nothing to
\* export" (the branch taken when hasAnyPage is false), and the document is
\* never saved.
C15_NothingToExport ==
    AllOutside =>
        /\ NothingDrawn
        /\ ~hasAnyPage
        /\ ~saved
        /\ expPc # "saved"

\* C15 witness: an export of two objects, one left of the grid and one right
\* of it, has ended with "Nothing to export" after a tiling of several cells
C15_Witness ==
    /\ AllOutside
    /\ expPc = "alertNothing"
    /\ gridRows * gridColumns > 1
    /\ \E i, j \in ExportIds : expObjects[i].x < 0 /\ expObjects[j].x > 0

-----------------------------------------------------------------------------
(* SpecOptA4: optimisePackingLayout on a sheet of A4, with the rectangles  *)
(* of the scenarios                                                        *)

ScenarioKinds == { <<300, 300>>, <<100, 50>>, <<100, 100>>, <<50, 100>> }

ScenarioLists ==
    UNION { { [i \in 1..n |-> MkObject(i, f[i])] : f \in [1..n -> ScenarioKinds] }
            : n \in 0..MaxObjects }

OptA4Init ==
    /\ objects \in ScenarioLists
    /\ sheetWidthMm = PaperA4.widthMm
    /\ sheetHeightMm = PaperA4.heightMm
    /\ sorted = <<>>
    /\ columns = 0
    /\ best = <<>>
    /\ evaluated = <<>>
    /\ optPc = "start"
    /\ PackOff
    /\ ExportOff
    /\ AppOff

SpecOptA4 == OptA4Init /\ [][OptNext]_vars

\* the input of scenario B: one rectangle of 300x300 on A4
ScenarioB ==
    /\ Len(objects) = 1
    /\ <<objects[1].widthMm, objects[1].heightMm>> = <<300, 300>>
    /\ <<sheetWidthMm, sheetHeightMm>> = <<210, 297>>

\* C16: in scenario B the loop starts at 2 columns, evaluates no column
\* count below 2, finds 2 columns feasible, and returns a layout of 2 columns
\* with the rectangle at the origin.
C16_ScenarioB ==
    ScenarioB =>
        /\ optPc = "loop" => columns >= 2
        /\ \A k \in 1..Len(evaluated) : evaluated[k].columns = k + 1
        /\ Len(evaluated) >= 1 => evaluated[1].feasible
        /\ optPc = "done" =>
              /\ best # <<>>
              /\ best[1].columns = 2
              /\ best[1].rows = 2
              /\ best[1].placements = <<[xMm |-> 0, yMm |-> 0]>>

\* C16 witness: scenario B has returned after the whole range of column
\* counts, 2 to 24, was evaluated
C16_Witness ==
    /\ ScenarioB
    /\ optPc = "done"
    /\ Len(evaluated) = MAX_SHEET_GRID - 1

-----------------------------------------------------------------------------
(* optimisePackingLayout: the order of the candidates (SpecOpt) *)

\* candidate e comes before candidate b: less waste by more than 0.5 mm^2, or
\* waste within 0.5 mm^2 and fewer rows, or equal rows and fewer columns.
\* (Two candidates of one call never have the same column count, so the
\* comparison of heights is never reached.)
Before(e, b) ==
    LET diff2 == 2 * e.wasteArea - 2 * b.wasteArea
        absDiff2 == IF diff2 < 0 THEN -diff2 ELSE diff2
    IN \/ diff2 < -1
       \/ /\ absDiff2 < 1
          /\ \/ e.rows < b.rows
             \/ e.rows = b.rows /\ e.columns < b.columns

\* C18: the returned result is one of the evaluated candidates, no feasible
\* candidate comes before it in the order (waste, then rows, then columns),
\* and it comes before every other feasible candidate: it is the one minimum,
\* whatever the order of the scan.
C18_TieBreak ==
    Returned =>
        /\ \E k \in 1..Len(evaluated) :
              /\ evaluated[k].feasible
              /\ evaluated[k].columns = best[1].columns
              /\ evaluated[k].rows = best[1].rows
              /\ evaluated[k].wasteArea = best[1].wasteArea
        /\ \A k \in 1..Len(evaluated) :
              evaluated[k].feasible =>
                  /\ ~Before(evaluated[k], best[1])
                  /\ evaluated[k].columns # best[1].columns =>
                         Before(best[1], evaluated[k])

\* C18 witness: an earlier candidate with the same waste and more rows lost
\* the tie against the returned one
C18_Witness ==
    /\ Returned
    /\ \E k \in 1..Len(evaluated) :
          /\ evaluated[k].feasible
          /\ evaluated[k].wasteArea = best[1].wasteArea
          /\ evaluated[k].columns < best[1].columns
          /\ evaluated[k].rows > best[1].rows

-----------------------------------------------------------------------------
(* optimisePackingLayout: the sorted copy (SpecOptA4) *)

\* a may stand directly before b: larger max(width, height), or the same
\* and taller, or the same and as tall and at least as wide
InOrder(a, b) ==
    LET aKey == IF a.widthMm >= a.heightMm THEN a.widthMm ELSE a.heightMm
        bKey == IF b.widthMm >= b.heightMm THEN b.widthMm ELSE b.heightMm
    IN \/ aKey > bKey
       \/ aKey = bKey /\ a.heightMm > b.heightMm
       \/ aKey = bKey /\ a.heightMm = b.heightMm /\ a.widthMm >= b.widthMm

\* s holds the elements of the caller's list, each once and unchanged, in
\* the order of the sort
SortedCopyOf(s) ==
    /\ Len(s) = Len(objects)
    /\ \A i \in ObjectIndexes : \E k \in 1..Len(s) : s[k] = objects[i]
    /\ \A k \in 1..(Len(s) - 1) : InOrder(s[k], s[k + 1])

\* C20: once the call is past its sort, sorted is the caller's list ordered
\* by max(width, height) descending, then height descending, then width
\* descending; every column count was packed in exactly that order; and no
\* step changes the caller's list.
C20_SortedCopy ==
    /\ [](optPc = "loop" \/ (optPc = "done" /\ objects # <<>>) =>
            /\ SortedCopyOf(sorted)
            /\ \A k \in 1..Len(evaluated) : evaluated[k].order = IdsOf(sorted))
    /\ [][objects' = objects]_vars

\* C20 witness: a call has returned whose sort moved the last element of the
\* caller's list to the front and broke one tie on max(width, height) by the
\* height and another by the width
C20_Witness ==
    /\ Returned
    /\ Len(objects) >= 3
    /\ sorted[1] = objects[Len(objects)]
    /\ \E k \in 1..(Len(sorted) - 1) :
          /\ Max(sorted[k].widthMm, sorted[k].heightMm)
                = Max(sorted[k + 1].widthMm, sorted[k + 1].heightMm)
          /\ sorted[k].heightMm > sorted[k + 1].heightMm
    /\ \E k \in 1..(Len(sorted) - 1) :
          /\ sorted[k].heightMm = sorted[k + 1].heightMm
          /\ sorted[k].widthMm > sorted[k + 1].widthMm
    /\ Len(evaluated) > 1

-----------------------------------------------------------------------------
(* App: the object list, the sheet grid and the handlers that change them   *)
(* (SpecApp).  A handler and the clamping effect that React runs after it   *)
(* are one step.                                                            *)

\* most objects in the list
MaxAppObjects == 2

\* largest value typed into a grid input
MaxAppGrid == 2

\* the quantity of one add is capped (Math.min(parsedQuantity, 25))
QUANTITY_CAP == 25

\* the stagger of the initial positions ((globalIndex * 18) % largestAxis)
OFFSET_STEP == 18

\* the sizes typed into the form, in mm: one that fits a sheet, one larger
\* than a sheet, and the invalid zero width and zero height
FormSizes == { <<100, 50>>, <<300, 300>>, <<0, 50>>, <<100, 0>> }

\* the quantities typed into the form
FormQuantities == 0..2

\* the loop of optimisePackingLayout as a function: cur is best so far
RECURSIVE OptLoop(_, _, _, _, _)
OptLoop(rects, sheetW, sheetH, cols, cur) ==
    IF cols > MaximumColumns(MinimumColumns(rects, sheetW)) THEN cur
    ELSE LET packing == PackWithinWidth(rects, cols * sheetW)
         IN IF packing = <<>> THEN OptLoop(rects, sheetW, sheetH, cols + 1, cur)
            ELSE LET cand == Candidate(cols, packing[1], sheetW, sheetH, SumArea(rects))
                 IN OptLoop(rects, sheetW, sheetH, cols + 1,
                            IF Replaces(cand, cur) THEN <<AsResult(cand)>> ELSE cur)

\* optimisePackingLayout as a function: <<>> for null, <<result>> otherwise
OptimisePackingLayout(objs, sheetW, sheetH) ==
    IF Len(objs) = 0 THEN <<>>
    ELSE LET rects == SortObjects(objs)
         IN OptLoop(rects, sheetW, sheetH, MinimumColumns(rects, sheetW), <<>>)

\* what the call in handleOptimise can return: the result computed above, or
\* null.  In whole millimetres the packing at minimumColumns always
\* succeeds; in doubles columns * sheetWidthMm can round to less than the
\* widest rectangle (a width of 3965361424508178.5 mm on US Letter, 215.9 mm
\* wide: ceil(width / 215.9) * 215.9 + EPSILON < width), and the one column
\* count of the range fails.  The handler is checked for both returns.
OptimiseReturns(objs, sheetW, sheetH) ==
    { OptimisePackingLayout(objs, sheetW, sheetH), <<>> }

\* the clamp of one coordinate to the layout: Math.min(Math.max(v, min), max)
ClampAxis(v, extent, size) ==
    Min(Max(v, Min(0, extent - size)), Max(extent - size, 0))

\* the clamping effect on the list, for a layout of layoutW x layoutH
ClampObjects(objs, layoutW, layoutH) ==
    [ i \in 1..Len(objs) |->
        [ objs[i] EXCEPT !.xMm = ClampAxis(@, layoutW, objs[i].widthMm),
                         !.yMm = ClampAxis(@, layoutH, objs[i].heightMm) ] ]

LayoutWidthMm == sheetDimensions.widthMm * sheetColumns

LayoutHeightMm == sheetDimensions.heightMm * sheetRows

\* one millimetre in the length unit of App's numbers
MillimetreLength == UNITS_PER_MM \div lengthUnit

\* createdObjects of addPrintObject; ids are fresh (randomUUID): nextId, nextId + 1, ...
CreatedObjects(widthMm, heightMm, quantity) ==
    LET largestAxis == Max(1 * MillimetreLength, Min(LayoutWidthMm, LayoutHeightMm))
    IN [ index \in 1..quantity |->
           LET globalIndex == Len(appObjects) + index - 1
               baseOffset == (globalIndex * OFFSET_STEP * MillimetreLength) % largestAxis
           IN [ id |-> nextId + index - 1,
                widthMm |-> widthMm,
                heightMm |-> heightMm,
                xMm |-> ClampAxis(baseOffset, LayoutWidthMm, widthMm),
                yMm |-> ClampAxis(baseOffset, LayoutHeightMm, heightMm),
                textureName |-> "none" ] ]

\* the notices of addPrintObject
AddNotices(widthMm, heightMm, parsedQuantity) ==
    (IF parsedQuantity > QUANTITY_CAP THEN {"capped"} ELSE {})
    \cup (IF widthMm > sheetDimensions.widthMm \/ heightMm > sheetDimensions.heightMm
          THEN {"larger than a sheet"} ELSE {})
    \cup (IF widthMm > LayoutWidthMm \/ heightMm > LayoutHeightMm
          THEN {"increase the grid"} ELSE {})

\* (mutant) a handler that falls back when there is no result: it opens the
\* grid to its full width and leaves the objects where they are
AfterOptimiseFallback(cur, result) ==
    IF result = <<>>
    THEN [cur EXCEPT !.sheetColumns = MAX_SHEET_GRID]
    ELSE [ sheetColumns |-> result[1].columns,
           sheetRows |-> result[1].rows,
           objects |-> [ i \in 1..Len(cur.objects) |->
                           IF cur.objects[i].id \in DOMAIN result[1].placements
                           THEN [ cur.objects[i] EXCEPT
                                    !.xMm = result[1].placements[cur.objects[i].id].xMm,
                                    !.yMm = result[1].placements[cur.objects[i].id].yMm ]
                           ELSE cur.objects[i] ] ]

\* the state handleOptimise leaves for a non-empty list: untouched when the
\* result is null, the result's grid and placements otherwise
AfterOptimise(cur, result) ==
    IF result = <<>>
    THEN cur
    ELSE [ sheetColumns |-> result[1].columns,
           sheetRows |-> result[1].rows,
           objects |-> [ i \in 1..Len(cur.objects) |->
                           IF cur.objects[i].id \in DOMAIN result[1].placements
                           THEN [ cur.objects[i] EXCEPT
                                    !.xMm = result[1].placements[cur.objects[i].id].xMm,
                                    !.yMm = result[1].placements[cur.objects[i].id].yMm ]
                           ELSE cur.objects[i] ] ]

AppInit ==
    /\ appObjects = <<>>
    /\ sheetColumns = 1
    /\ sheetRows = 1
    /\ sheetDimensions = PaperA4
    /\ formError = {}
    /\ alertShown = "none"
    /\ appEvent = "init"
    /\ paperSizeId = "a4"
    /\ orientation = "portrait"
    /\ reads = {}
    /\ nextId = 1
    /\ appSteps = 0
    /\ PackOff
    /\ OptOff
    /\ ExportOff

\* the form is submitted with one of the given sizes and quantities
AddPrintObjectFrom(sizes, quantities) ==
    \E size \in sizes, parsedQuantity \in quantities :
        /\ Len(appObjects) + Min(parsedQuantity, QUANTITY_CAP) <= MaxAppObjects
        /\ IF size[1] <= 0
           THEN /\ formError' = {"invalid width"}
                /\ appEvent' = "rejected"
                /\ UNCHANGED <<appObjects, nextId>>
           ELSE IF size[2] <= 0
           THEN /\ formError' = {"invalid height"}
                /\ appEvent' = "rejected"
                /\ UNCHANGED <<appObjects, nextId>>
           ELSE IF parsedQuantity <= 0
           THEN /\ formError' = {"invalid quantity"}
                /\ appEvent' = "rejected"
                /\ UNCHANGED <<appObjects, nextId>>
           ELSE /\ appObjects' = appObjects
                                   \o CreatedObjects(size[1], size[2],
                                                     Min(parsedQuantity, QUANTITY_CAP))
                /\ nextId' = nextId + Min(parsedQuantity, QUANTITY_CAP)
                /\ formError' = AddNotices(size[1], size[2], parsedQuantity)
                /\ appEvent' = "added"
        /\ UNCHANGED <<sheetColumns, sheetRows, sheetDimensions, alertShown,
                       paperSizeId, orientation, reads, packVars, optVars, expVars>>

\* the form is submitted
AddPrintObject == AddPrintObjectFrom(FormSizes, FormQuantities)

\* "Sheets across" is edited; the clamping effect runs when the layout's
\* width has changed
SetSheetColumns ==
    \E typed \in 0..MaxAppGrid :
        LET limit == Max(MAX_SHEET_GRID, sheetColumns)
            nextColumns == Max(1, Min(limit, IF typed = 0 THEN 1 ELSE typed))
        IN /\ sheetColumns' = nextColumns
           /\ appObjects' = IF nextColumns # sheetColumns
                            THEN ClampObjects(appObjects,
                                              sheetDimensions.widthMm * nextColumns,
                                              LayoutHeightMm)
                            ELSE appObjects
           /\ appEvent' = "columns"
           /\ UNCHANGED <<sheetRows, sheetDimensions, formError, alertShown,
                          paperSizeId, orientation, reads, nextId,
                          packVars, optVars, expVars>>

\* "Sheets down" is edited; the clamping effect runs when the layout's
\* height has changed
SetSheetRows ==
    \E typed \in 0..MaxAppGrid :
        LET limit == Max(MAX_SHEET_GRID, sheetRows)
            nextRows == Max(1, Min(limit, IF typed = 0 THEN 1 ELSE typed))
        IN /\ sheetRows' = nextRows
           /\ appObjects' = IF nextRows # sheetRows
                            THEN ClampObjects(appObjects, LayoutWidthMm,
                                              sheetDimensions.heightMm * nextRows)
                            ELSE appObjects
           /\ appEvent' = "rows"
           /\ UNCHANGED <<sheetColumns, sheetDimensions, formError, alertShown,
                          paperSizeId, orientation, reads, nextId,
                          packVars, optVars, expVars>>

\* "Optimise" is clicked, returns being what the call can return for the
\* list; the clamping effect runs when the grid has changed
HandleOptimiseWith(returns) ==
    IF Len(appObjects) = 0
    THEN /\ alertShown' = "Add one or more print objects"
         /\ appEvent' = "optimise: no objects"
         /\ UNCHANGED <<appObjects, sheetColumns, sheetRows, sheetDimensions, formError,
                        paperSizeId, orientation, reads, nextId,
                        packVars, optVars, expVars>>
    ELSE \E result \in returns :
           LET cur == [ sheetColumns |-> sheetColumns, sheetRows |-> sheetRows,
                        objects |-> appObjects ]
               next == AfterOptimise(cur, result)
           IN /\ sheetColumns' = next.sheetColumns
              /\ sheetRows' = next.sheetRows
              /\ appObjects' =
                    IF next.sheetColumns # sheetColumns \/ next.sheetRows # sheetRows
                    THEN ClampObjects(next.objects,
                                      sheetDimensions.widthMm * next.sheetColumns,
                                      sheetDimensions.heightMm * next.sheetRows)
                    ELSE next.objects
              /\ alertShown' = IF result = <<>> THEN "Unable to generate an optimised layout"
                               ELSE alertShown
              /\ formError' = IF result = <<>> THEN formError ELSE {}
              /\ appEvent' = IF result = <<>> THEN "optimise: no result" ELSE "optimised"
              /\ UNCHANGED <<sheetDimensions, paperSizeId, orientation, reads, nextId,
                             packVars, optVars, expVars>>

\* "Optimise" is clicked
HandleOptimise ==
    HandleOptimiseWith(OptimiseReturns(appObjects, sheetDimensions.widthMm,
                                       sheetDimensions.heightMm))

\* a handler call of a specification that does not count the calls
Uncounted(handler) == handler /\ UNCHANGED appSteps

AppNext ==
    \/ Uncounted(AddPrintObject)
    \/ Uncounted(SetSheetColumns)
    \/ Uncounted(SetSheetRows)
    \/ Uncounted(HandleOptimise)

SpecApp == AppInit /\ [][AppNext]_vars

\* C19: a step of handleOptimise whose call returned no result leaves
\* sheetColumns, sheetRows and the whole object list (so every position) as
\* they were, and reports it with the alert.
C19_NoResultChangesNothing ==
    [][appEvent' = "optimise: no result" =>
          /\ appObjects' = appObjects
          /\ sheetColumns' = sheetColumns
          /\ sheetRows' = sheetRows
          /\ alertShown' = "Unable to generate an optimised layout"]_vars

\* C19 witness: no result was reported for a list of several objects on a
\* grid that an earlier optimisation had set
C19_Witness ==
    /\ appEvent = "optimise: no result"
    /\ Len(appObjects) >= 2
    /\ sheetColumns > 1
    /\ \E i \in 1..Len(appObjects) : appObjects[i].xMm > 0

-----------------------------------------------------------------------------
(* packWithinWidth: the choice of the shelf (SpecPack) *)

\* the shelves of the current state on which a rectangle of this width fits
FittingShelves(width) ==
    { s \in 1..Len(pk.shelves) : WithinBound(pk.shelves[s].usedWidthMm + width) }

\* C21: a step that places a rectangle puts it on a shelf where it fits and
\* where no other fitting shelf would leave less width (none has a larger
\* usedWidthMm); it opens a new shelf, the next in order, exactly when the
\* rectangle fits on no shelf.
C21_TightestFit ==
    [][(packPc = "loop" /\ packPc' = "loop" /\ packIndex' = packIndex + 1) =>
          LET rect == rectangles[packIndex]
              fit == FittingShelves(rect.widthMm)
              chosen == pk'.shelfOf[rect.id]
          IN IF fit = {}
             THEN chosen = Len(pk.shelves) + 1 /\ Len(pk'.shelves) = Len(pk.shelves) + 1
             ELSE /\ chosen \in fit
                  /\ Len(pk'.shelves) = Len(pk.shelves)
                  /\ \A s \in fit :
                        pk.shelves[s].usedWidthMm <= pk.shelves[chosen].usedWidthMm]_vars

\* C21 witness: a returned packing in which a rectangle went on the second
\* shelf although it fitted on the first one as well
C21_Witness ==
    /\ packPc = "done"
    /\ \E i \in Placed :
          /\ pk.shelfOf[i] = 2
          /\ pk.placements[i].xMm > 0
          /\ WithinBound(pk.shelves[1].usedWidthMm + rectangles[i].widthMm)

-----------------------------------------------------------------------------
(* packWithinWidth: the stack of shelves (SpecPack) *)

\* the rectangles placed on shelf s
OnShelf(s) == { i \in Placed : pk.shelfOf[i] = s }

\* C22: after every step the shelves are stacked in opening order without
\* gap or overlap: the first starts at y = 0, each next one starts where the
\* one before ends, a shelf is as high as the tallest rectangle on it, and
\* the running total height is the end of the last shelf.
C22_ShelfCascade ==
    LET n == Len(pk.shelves)
    IN /\ n = 0 => pk.totalHeightMm = 0
       /\ n > 0 => pk.shelves[1].yMm = 0
       /\ \A s \in 1..(n - 1) :
             pk.shelves[s + 1].yMm = pk.shelves[s].yMm + pk.shelves[s].heightMm
       /\ \A s \in 1..n :
             /\ OnShelf(s) # {}
             /\ \A i \in OnShelf(s) : rectangles[i].heightMm <= pk.shelves[s].heightMm
             /\ \E i \in OnShelf(s) : rectangles[i].heightMm = pk.shelves[s].heightMm
       /\ n > 0 => pk.totalHeightMm = pk.shelves[n].yMm + pk.shelves[n].heightMm

\* C22 witness: a returned packing whose first shelf grew, for a rectangle
\* taller than the one that opened it, after the second shelf was opened
C22_Witness ==
    /\ packPc = "done"
    /\ Len(pk.shelves) >= 2
    /\ \E i, j, k \in Placed :
          /\ pk.shelfOf[i] = 1 /\ pk.shelfOf[k] = 1 /\ pk.shelfOf[j] = 2
          /\ i < j /\ j < k
          /\ rectangles[k].heightMm > rectangles[i].heightMm
          /\ pk.shelves[1].heightMm = rectangles[k].heightMm

-----------------------------------------------------------------------------
(* exportLayoutToPdf: the draw commands of a cell (SpecExport) *)

\* C23: every command drawn lies inside its own sheet, 0 <= x, 0 <= y,
\* x + w <= sheet width, y + h <= sheet height, and its x and y are the
\* intersection's left and top edge taken from the cell's origin.
C23_RelativeToCell ==
    \A k \in 1..Len(AllCommands) :
        LET c == AllCommands[k]
            o == expObjects[c.id]
        IN /\ c.x >= 0
           /\ c.y >= 0
           /\ c.x + c.w <= sheet.w
           /\ c.y + c.h <= sheet.h
           /\ c.x = Max(o.x, c.col * sheet.w) - c.col * sheet.w
           /\ c.y = Max(o.y, c.row * sheet.h) - c.row * sheet.h

\* C23 witness: a saved document with a command in a cell that is neither
\* in the first row nor in the first column, and a command that starts
\* inside its cell
C23_Witness ==
    /\ expPc = "saved"
    /\ \E k \in 1..Len(AllCommands) : AllCommands[k].col >= 1 /\ AllCommands[k].row >= 1
    /\ \E k \in 1..Len(AllCommands) : AllCommands[k].x > 0 /\ AllCommands[k].y > 0

\* the extent of the overlap of [a, a + len) with the cell [origin, origin + size)
OverlapExtent(a, len, origin, size) ==
    (IF a + len <= origin + size THEN a + len ELSE origin + size)
    - (IF a >= origin THEN a ELSE origin)

\* C24: a command is drawn for an object in a cell only when the object
\* overlaps the cell by more than EPSILON in width and in height (an object
\* that touches the cell, or reaches into it by EPSILON or less, draws
\* nothing there), and no object has two commands in one cell.
C24_CommandOnlyWhenOverlapping ==
    /\ \A k \in 1..Len(AllCommands) :
          LET c == AllCommands[k]
              o == expObjects[c.id]
          IN /\ OverlapExtent(o.x, o.w, c.col * sheet.w, sheet.w) > EPSILON
             /\ OverlapExtent(o.y, o.h, c.row * sheet.h, sheet.h) > EPSILON
             /\ c.w > EPSILON
             /\ c.h > EPSILON
    /\ \A k, l \in 1..Len(AllCommands) :
          (AllCommands[k].id = AllCommands[l].id
             /\ AllCommands[k].row = AllCommands[l].row
             /\ AllCommands[k].col = AllCommands[l].col) => k = l

\* C24 witness: a saved document of an object whose left edge is on the
\* line between the first two columns, drawn in the second column and not in
\* the first, and of an object that reaches EPSILON into a cell
C24_Witness ==
    /\ expPc = "saved"
    /\ \E i \in ExportIds :
          /\ expObjects[i].x = sheet.w
          /\ \E k \in 1..Len(AllCommands) : AllCommands[k].id = i /\ AllCommands[k].col = 1
          /\ \A k \in 1..Len(AllCommands) : AllCommands[k].id = i => AllCommands[k].col # 0
    /\ \E j \in ExportIds :
          OverlapExtent(expObjects[j].x, expObjects[j].w, 0, sheet.w) = EPSILON

-----------------------------------------------------------------------------
(* optimisePackingLayout: the placement map of the result (SpecOpt) *)

\* C25: the placement map of a returned result has exactly the ids of the
\* caller's rectangles as its keys, and it is the map of the packing at the
\* returned column count.
C25_OnePlacementPerRectangle ==
    Returned =>
        /\ DOMAIN best[1].placements = { objects[i].id : i \in ObjectIndexes }
        /\ LET packing == PackWithinWidth(sorted, best[1].columns * sheetWidthMm)
           IN packing # <<>> /\ best[1].placements = packing[1].placements

\* C25 witness: a result for three or more rectangles was returned although
\* the last candidate of the loop, feasible too, had other placements
C25_Witness ==
    /\ Returned
    /\ Len(objects) >= 3
    /\ best[1].columns < LastColumn
    /\ LET last == PackWithinWidth(sorted, LastColumn * sheetWidthMm)
       IN last # <<>> /\ last[1].placements # best[1].placements

-----------------------------------------------------------------------------
(* packWithinWidth: the placements and the shelves (SpecPack) *)

\* C26: in a returned packing every rectangle's yMm is the yMm of the shelf
\* it was placed on, as that shelf stands at the end.
C26_PlacementFollowsShelf ==
    packPc = "done" =>
        \A i \in Placed : pk.placements[i].yMm = pk.shelves[pk.shelfOf[i]].yMm

-----------------------------------------------------------------------------
(* optimisePackingLayout: the placements and the grid (SpecOpt) *)

\* C27: every rectangle of a returned result lies inside the grid of
\* columns x rows sheets, up to EPSILON.
C27_InsideGrid ==
    Returned =>
        \A i \in ObjectIndexes :
            LET p == best[1].placements[objects[i].id]
            IN /\ p.xMm >= 0
               /\ p.yMm >= 0
               /\ ToUnits(p.xMm + objects[i].widthMm)
                     <= ToUnits(best[1].columns * sheetWidthMm) + EPSILON
               /\ ToUnits(p.yMm + objects[i].heightMm)
                     <= ToUnits(best[1].rows * sheetHeightMm) + EPSILON

\* C27 witness: a result of several columns and rows with a rectangle in the
\* last column and one in the last row
C27_Witness ==
    /\ Returned
    /\ best[1].columns >= 2
    /\ best[1].rows >= 2
    /\ \E i \in ObjectIndexes :
          best[1].placements[i].xMm + objects[i].widthMm
              > (best[1].columns - 1) * sheetWidthMm
    /\ \E i \in ObjectIndexes :
          best[1].placements[i].yMm + objects[i].heightMm
              > (best[1].rows - 1) * sheetHeightMm

-----------------------------------------------------------------------------
(* optimisePackingLayout in the program's own numbers (SpecOptDouble).      *)
(* The numbers of the program are IEEE-754 binary64; here a double is the   *)
(* record [neg, m, e] of the value (-1)^neg * m * 2^e, m a natural number   *)
(* of at most PRECISION bits, and every operation is the exact result       *)
(* rounded to nearest, ties to even.  A natural number is the sequence of   *)
(* its limbs of LIMB_BITS bits, lowest first, the highest not zero, so      *)
(* that no intermediate value leaves the integers of the checker.           *)
(* Exponents stay far inside the binary64 range: no overflow, no subnormal. *)

\* the bits of a binary64 significand
PRECISION == 53

\* the bits of one limb
LIMB_BITS == 15

LIMB == 2^LIMB_BITS

Limb(a, i) == IF i >= 1 /\ i <= Len(a) THEN a[i] ELSE 0

\* without the zero limbs at the high end
Norm(a) ==
    LET used == { i \in 1..Len(a) : a[i] # 0 }
    IN IF used = {} THEN <<>>
       ELSE SubSeq(a, 1, CHOOSE i \in used : \A j \in used : j <= i)

RECURSIVE AddFrom(_, _, _, _, _)
AddFrom(a, b, i, n, carry) ==
    IF i > n THEN <<>>
    ELSE LET t == Limb(a, i) + Limb(b, i) + carry
         IN <<t % LIMB>> \o AddFrom(a, b, i + 1, n, t \div LIMB)

LAdd(a, b) ==
    Norm(AddFrom(a, b, 1, (IF Len(a) >= Len(b) THEN Len(a) ELSE Len(b)) + 1, 0))

RECURSIVE SubFrom(_, _, _, _)
SubFrom(a, b, i, borrow) ==
    IF i > Len(a) THEN <<>>
    ELSE LET t == Limb(a, i) - Limb(b, i) - borrow
         IN <<(t + LIMB) % LIMB>> \o SubFrom(a, b, i + 1, IF t < 0 THEN 1 ELSE 0)

\* a - b for a >= b
LSub(a, b) == Norm(SubFrom(a, b, 1, 0))

\* a < b
LLess(a, b) ==
    LET differ == { i \in 1..Len(a) : a[i] # Limb(b, i) }
    IN IF Len(a) # Len(b) THEN Len(a) < Len(b)
       ELSE /\ differ # {}
            /\ LET top == CHOOSE i \in differ : \A j \in differ : j <= i
               IN a[top] < b[top]

\* a * d for one limb d
RECURSIVE MulSmallFrom(_, _, _, _)
MulSmallFrom(a, d, i, carry) ==
    IF i > Len(a) THEN <<carry>>
    ELSE LET t == a[i] * d + carry
         IN <<t % LIMB>> \o MulSmallFrom(a, d, i + 1, t \div LIMB)

LMulSmall(a, d) == Norm(MulSmallFrom(a, d, 1, 0))

\* a * LIMB^k
LShlLimbs(a, k) == IF a = <<>> THEN <<>> ELSE [i \in 1..k |-> 0] \o a

RECURSIVE MulFrom(_, _, _)
MulFrom(a, b, i) ==
    IF i > Len(b) THEN <<>>
    ELSE LAdd(LShlLimbs(LMulSmall(a, b[i]), i - 1), MulFrom(a, b, i + 1))

LMul(a, b) == MulFrom(a, b, 1)

\* a \div d for one limb d > 0, from the highest limb down
RECURSIVE DivSmallFrom(_, _, _, _)
DivSmallFrom(a, d, i, rem) ==
    IF i < 1 THEN <<>>
    ELSE LET t == rem * LIMB + a[i]
         IN DivSmallFrom(a, d, i - 1, t % d) \o <<t \div d>>

LDivSmall(a, d) == Norm(DivSmallFrom(a, d, Len(a), 0))

\* a * 2^k and a \div 2^k
LShl(a, k) == LShlLimbs(LMulSmall(a, 2^(k % LIMB_BITS)), k \div LIMB_BITS)

LShr(a, k) ==
    IF k \div LIMB_BITS >= Len(a) THEN <<>>
    ELSE LDivSmall(SubSeq(a, k \div LIMB_BITS + 1, Len(a)), 2^(k % LIMB_BITS))

\* bit i of a, the lowest being bit 1
Bit(a, i) == (Limb(a, (i - 1) \div LIMB_BITS + 1) \div 2^((i - 1) % LIMB_BITS)) % 2

\* the number of bits up to the highest 1
BitLength(a) ==
    IF a = <<>> THEN 0
    ELSE (Len(a) - 1) * LIMB_BITS
         + (CHOOSE n \in 1..LIMB_BITS : 2^(n - 1) <= a[Len(a)] /\ a[Len(a)] < 2^n)

\* the largest limb in lo..hi whose product with b is at most r (b * lo <= r)
RECURSIVE QuotientLimb(_, _, _, _)
QuotientLimb(r, b, lo, hi) ==
    IF lo = hi THEN lo
    ELSE LET mid == (lo + hi + 1) \div 2
         IN IF LLess(r, LMulSmall(b, mid)) THEN QuotientLimb(r, b, lo, mid - 1)
            ELSE QuotientLimb(r, b, mid, hi)

\* long division from the highest limb of a down: [q, r] with a = q * b + r
\* (r is the remainder so far; a zero digit leaves it as it is)
RECURSIVE DivFrom(_, _, _, _)
DivFrom(a, b, i, r) ==
    IF i < 1 THEN [q |-> <<>>, r |-> r]
    ELSE LET partial == Norm(<<a[i]>> \o r)
             digit == QuotientLimb(partial, b, 0, LIMB - 1)
         IN IF digit = 0
            THEN LET lower == DivFrom(a, b, i - 1, partial)
                 IN [q |-> lower.q \o <<0>>, r |-> lower.r]
            ELSE LET lower == DivFrom(a, b, i - 1, LSub(partial, LMulSmall(b, digit)))
                 IN [q |-> lower.q \o <<digit>>, r |-> lower.r]

LDivMod(a, b) ==
    LET whole == DivFrom(a, b, Len(a), <<>>)
    IN [q |-> Norm(whole.q), r |-> whole.r]

\* a natural number below LIMB^2 as limbs
FromInt(n) == Norm(<<n % LIMB, n \div LIMB>>)

\* round to nearest, ties to even: the double of magnitude n * 2^e
\* (sticky: a non-zero part below n was cut off)
Round(neg, n, e, sticky) ==
    LET cut == BitLength(n) - PRECISION
    IN IF cut <= 0 THEN [neg |-> neg, m |-> n, e |-> e]
       ELSE LET kept == LShr(n, cut)
                below == sticky \/ \E i \in 1..(cut - 1) : Bit(n, i) = 1
                up == Bit(n, cut) = 1 /\ (below \/ Bit(kept, 1) = 1)
            IN [neg |-> neg, m |-> IF up THEN LAdd(kept, <<1>>) ELSE kept, e |-> e + cut]

\* x * y
DMul(x, y) == Round(x.neg # y.neg, LMul(x.m, y.m), x.e + y.e, FALSE)

\* x / y, y not zero
DDiv(x, y) ==
    LET shift == PRECISION + 2 + BitLength(y.m) - BitLength(x.m)
        division == LDivMod(LShl(x.m, shift), y.m)
    IN Round(x.neg # y.neg, division.q, x.e - shift - y.e, division.r # <<>>)

\* x's significand at the lower of the two exponents
AlignedM(x, y) == IF x.e >= y.e THEN LShl(x.m, x.e - y.e) ELSE x.m

\* |x| < |y|
MagnitudeLess(x, y) == LLess(AlignedM(x, y), AlignedM(y, x))

\* x + y
DAdd(x, y) ==
    LET lowE == Min(x.e, y.e)
    IN IF x.neg = y.neg
       THEN Round(x.neg, LAdd(AlignedM(x, y), AlignedM(y, x)), lowE, FALSE)
       ELSE IF MagnitudeLess(x, y)
            THEN Round(y.neg, LSub(AlignedM(y, x), AlignedM(x, y)), lowE, FALSE)
            ELSE Round(x.neg, LSub(AlignedM(x, y), AlignedM(y, x)), lowE, FALSE)

DNeg(x) == [neg |-> ~x.neg, m |-> x.m, e |-> x.e]

\* x - y
DSub(x, y) == DAdd(x, DNeg(y))

DAbs(x) == [neg |-> FALSE, m |-> x.m, e |-> x.e]

\* x < y
DLess(x, y) ==
    IF x.m = <<>> /\ y.m = <<>> THEN FALSE
    ELSE IF x.neg # y.neg THEN x.neg
    ELSE IF x.neg THEN MagnitudeLess(y, x) ELSE MagnitudeLess(x, y)

\* x === y
DEqual(x, y) == ~DLess(x, y) /\ ~DLess(y, x)

DMax(x, y) == IF DLess(x, y) THEN y ELSE x

DMin(x, y) == IF DLess(y, x) THEN y ELSE x

\* Math.ceil
DCeil(x) ==
    IF x.e >= 0 THEN x
    ELSE LET whole == LShr(x.m, -x.e)
             fraction == \E i \in 1..(-x.e) : Bit(x.m, i) = 1
         IN [neg |-> x.neg,
             m |-> IF fraction /\ ~x.neg THEN LAdd(whole, <<1>>) ELSE whole,
             e |-> 0]

\* the double of a whole number below LIMB^2
DInt(n) == [neg |-> FALSE, m |-> FromInt(n), e |-> 0]

\* the double a decimal literal n / 10^k denotes: the nearest to the exact value
DDecimal(n, tenPower) == DDiv(DInt(n), DInt(tenPower))

\* EPSILON (0.0001) and the 0.5 of the waste comparison, as the doubles the
\* literals denote
EPSILON_DOUBLE == DDecimal(1, 10000)

HALF == DDecimal(5, 10)

\* PAPER_SIZES: US Letter and Tabloid have sides no double holds exactly
PaperLetter == [widthMm |-> DDecimal(2159, 10), heightMm |-> DDecimal(2794, 10)]

PaperTabloid == [widthMm |-> DDecimal(2794, 10), heightMm |-> DDecimal(4318, 10)]

PaperA4Double == [widthMm |-> DInt(PaperA4.widthMm), heightMm |-> DInt(PaperA4.heightMm)]

DoubleSheets == {PaperLetter, PaperTabloid, PaperA4Double}

\* input bound: the very wide rectangles are WideBase, WideBase + 1, ...
MaxWidthSteps == 2

\* 1589197823884 mm, a whole number every double holds exactly
WideBase == LAdd(LMul(FromInt(1589197), FromInt(1000000)), FromInt(823884))

\* the widths of the rectangle: one of a few sheets, and the very wide ones
DoubleWidths ==
    {DInt(300)}
        \cup { [neg |-> FALSE, m |-> LAdd(WideBase, FromInt(i)), e |-> 0] : i \in 0..MaxWidthSteps }

\* the lists of SpecOptDouble: empty, or one rectangle 100 mm high
DoubleLists ==
    {<<>>} \cup { <<[id |-> 1, widthMm |-> w, heightMm |-> DInt(100)]>> : w \in DoubleWidths }

\* maxWidthRequirement and totalArea, the two reduce calls
MaxWidthDouble(rects) ==
    IF Len(rects) = 0 THEN DInt(0) ELSE DMax(DInt(0), rects[1].widthMm)

TotalAreaDouble(rects) ==
    IF Len(rects) = 0 THEN DInt(0)
    ELSE DAdd(DInt(0), DMul(rects[1].widthMm, rects[1].heightMm))

MinimumColumnsDouble(rects, sheetW) ==
    DMax(DInt(1), DCeil(DDiv(MaxWidthDouble(rects), sheetW)))

MaximumColumnsDouble(minimumColumns) == DMax(minimumColumns, DInt(MAX_SHEET_GRID))

\* packWithinWidth for a list of one rectangle: <<>> for null, else the
\* result of opening the first shelf
PackOneDouble(rects, maxW) ==
    IF DLess(DAdd(maxW, EPSILON_DOUBLE), rects[1].widthMm) THEN <<>>
    ELSE << [ placements |-> (rects[1].id :> [xMm |-> DInt(0), yMm |-> DInt(0)]),
              totalHeightMm |-> DMax(DAdd(DInt(0), rects[1].heightMm),
                                     DAdd(DInt(0), rects[1].heightMm)),
              usedWidthMm |-> DMin(maxW, DMax(DInt(0), rects[1].widthMm)) ] >>

\* the candidate the loop body computes from a packing
CandidateDouble(cols, packing, sheetW, sheetH, totalArea) ==
    LET rowCount == DMax(DInt(1), DCeil(DDiv(packing.totalHeightMm, sheetH)))
    IN [ columns |-> cols,
         rows |-> rowCount,
         placements |-> packing.placements,
         totalHeightMm |-> packing.totalHeightMm,
         layoutWidthMm |-> DMin(DMul(cols, sheetW), DMax(sheetW, packing.usedWidthMm)),
         layoutHeightMm |-> DMax(packing.totalHeightMm, DMul(rowCount, sheetH)),
         wasteArea |-> DSub(DMul(DMul(DMul(cols, rowCount), sheetW), sheetH), totalArea) ]

\* the condition under which the candidate becomes best
ReplacesDouble(cand, cur) ==
    \/ cur = <<>>
    \/ /\ cur # <<>>
       /\ \/ DLess(cand.wasteArea, DSub(cur[1].wasteArea, HALF))
          \/ /\ DLess(DAbs(DSub(cand.wasteArea, cur[1].wasteArea)), HALF)
             /\ \/ DLess(cand.rows, cur[1].rows)
                \/ /\ DEqual(cand.rows, cur[1].rows)
                   /\ \/ DLess(cand.columns, cur[1].columns)
                      \/ /\ DEqual(cand.columns, cur[1].columns)
                         /\ DLess(cand.totalHeightMm, cur[1].layoutHeightMm)

OptDoubleInit ==
    /\ objects \in DoubleLists
    /\ \E paper \in DoubleSheets :
          /\ sheetWidthMm = paper.widthMm
          /\ sheetHeightMm = paper.heightMm
    /\ sorted = <<>>
    /\ columns = DInt(0)
    /\ best = <<>>
    /\ evaluated = <<>>
    /\ optPc = "start"
    /\ PackOff
    /\ ExportOff
    /\ AppOff

\* entry: the empty check, the sort (of at most one rectangle), the loop bounds
OptDoubleBegin ==
    /\ optPc = "start"
    /\ IF Len(objects) = 0
       THEN /\ optPc' = "done"
            /\ UNCHANGED <<sorted, columns>>
       ELSE /\ sorted' = objects
            /\ columns' = MinimumColumnsDouble(objects, sheetWidthMm)
            /\ optPc' = "loop"
    /\ UNCHANGED <<objects, sheetWidthMm, sheetHeightMm, best, evaluated, packVars, expVars, appVars>>

\* one iteration of the loop over the column counts
OptDoubleCandidate ==
    /\ optPc = "loop"
    /\ ~DLess(MaximumColumnsDouble(MinimumColumnsDouble(sorted, sheetWidthMm)), columns)
    /\ LET packing == PackOneDouble(sorted, DMul(columns, sheetWidthMm))
       IN IF packing = <<>>
          THEN /\ evaluated' = Append(evaluated, [columns |-> columns, feasible |-> FALSE])
               /\ UNCHANGED best
          ELSE LET cand == CandidateDouble(columns, packing[1], sheetWidthMm, sheetHeightMm,
                                           TotalAreaDouble(sorted))
               IN /\ evaluated' = Append(evaluated, [columns |-> columns, feasible |-> TRUE])
                  /\ best' = IF ReplacesDouble(cand, best) THEN <<AsResult(cand)>> ELSE best
    /\ columns' = DAdd(columns, DInt(1))
    /\ UNCHANGED <<objects, sheetWidthMm, sheetHeightMm, sorted, optPc, packVars, expVars, appVars>>

\* the loop ends: return best
OptDoubleReturn ==
    /\ optPc = "loop"
    /\ DLess(MaximumColumnsDouble(MinimumColumnsDouble(sorted, sheetWidthMm)), columns)
    /\ optPc' = "done"
    /\ UNCHANGED <<objects, sheetWidthMm, sheetHeightMm, sorted, columns, best, evaluated,
                   packVars, expVars, appVars>>

OptDoubleNext == OptDoubleBegin \/ OptDoubleCandidate \/ OptDoubleReturn

SpecOptDouble == OptDoubleInit /\ [][OptDoubleNext]_vars

\* C28: for rectangles and sheets of positive size, optimisePackingLayout
\* returns null only when the list is empty: the packing at minimumColumns
\* succeeds.  In the program's doubles it does not always.
C28_NullOnlyForEmptyList ==
    (optPc = "done" /\ best = <<>>) => objects = <<>>

-----------------------------------------------------------------------------
(* App: the paper, the orientation and the drag, and App with lengths one  *)
(* EPSILON apart (SpecAppFine).  In SpecAppFine every length of App is a   *)
(* whole number of export units (lengthUnit = EPSILON), so that objects    *)
(* whose widths add up to one EPSILON more than the layout exist.  Areas   *)
(* at that resolution exceed the checker's integers: an area is kept as    *)
(* two digits of base UNITS_PER_MM^2, and its arithmetic is exact.         *)

PaperIds == {"a4", "a5"}

\* selectedPaperSize: the entry of PAPER_SIZES, a4 when none matches
SelectedPaperSize(id) == IF id = "a5" THEN PaperA5 ELSE PaperA4

\* sheetDimensions, in the length unit of App's numbers
SheetDimensionsOf(id, orient) ==
    IF orient = "portrait"
    THEN [ widthMm |-> SelectedPaperSize(id).widthMm * MillimetreLength,
           heightMm |-> SelectedPaperSize(id).heightMm * MillimetreLength ]
    ELSE [ widthMm |-> SelectedPaperSize(id).heightMm * MillimetreLength,
           heightMm |-> SelectedPaperSize(id).widthMm * MillimetreLength ]

\* the list after the clamping effect that follows a change of the sheet:
\* the effect runs when the layout's width or height has changed
AfterSheetChange(nextSheet) ==
    IF nextSheet.widthMm * sheetColumns # LayoutWidthMm
          \/ nextSheet.heightMm * sheetRows # LayoutHeightMm
    THEN ClampObjects(appObjects, nextSheet.widthMm * sheetColumns,
                      nextSheet.heightMm * sheetRows)
    ELSE appObjects

\* a paper size is selected
SetPaperSizeId ==
    \E id \in PaperIds :
        /\ paperSizeId' = id
        /\ sheetDimensions' = SheetDimensionsOf(id, orientation)
        /\ appObjects' = AfterSheetChange(SheetDimensionsOf(id, orientation))
        /\ appEvent' = "paper"
        /\ UNCHANGED <<sheetColumns, sheetRows, formError, alertShown, orientation, reads,
                       nextId, packVars, optVars, expVars>>

\* an orientation button is clicked
SetOrientation ==
    \E orient \in {"portrait", "landscape"} :
        /\ orientation' = orient
        /\ sheetDimensions' = SheetDimensionsOf(paperSizeId, orient)
        /\ appObjects' = AfterSheetChange(SheetDimensionsOf(paperSizeId, orient))
        /\ appEvent' = "orientation"
        /\ UNCHANGED <<sheetColumns, sheetRows, formError, alertShown, paperSizeId, reads,
                       nextId, packVars, optVars, expVars>>

\* updateObjectPosition
UpdateObjectPosition(objs, id, xMm, yMm) ==
    [ i \in 1..Len(objs) |->
        IF objs[i].id = id THEN [objs[i] EXCEPT !.xMm = xMm, !.yMm = yMm] ELSE objs[i] ]

\* where a pointer move asks the dragged object's corner to be
\* (relativeX - offsetXMm, relativeY - offsetYMm), in millimetres: before
\* the layout's origin and beyond every layout
DragTargets == { <<-50, -50>>, <<10000, 10000>> }

\* an object is grabbed and the pointer moves: handlePointerMove clamps the
\* position to the layout and calls updateObjectPosition
HandlePointerMove ==
    \E i \in 1..Len(appObjects), target \in DragTargets :
        /\ appObjects' =
              UpdateObjectPosition(appObjects, appObjects[i].id,
                  ClampAxis(target[1] * MillimetreLength, LayoutWidthMm,
                            appObjects[i].widthMm),
                  ClampAxis(target[2] * MillimetreLength, LayoutHeightMm,
                            appObjects[i].heightMm))
        /\ appEvent' = "dragged"
        /\ UNCHANGED <<sheetColumns, sheetRows, sheetDimensions, formError, alertShown,
                       paperSizeId, orientation, reads, nextId, packVars, optVars, expVars>>

\* An area of that resolution: the whole number hi * WIDE_BASE + lo,
\* 0 <= lo < WIDE_BASE
WIDE_BASE == UNITS_PER_MM * UNITS_PER_MM

WideNorm(hi, lo) == [hi |-> hi + lo \div WIDE_BASE, lo |-> lo % WIDE_BASE]

\* a * b for whole numbers a, b >= 0, by their digits of base UNITS_PER_MM
WideMul(a, b) ==
    LET middle == (a \div UNITS_PER_MM) * (b % UNITS_PER_MM)
                      + (a % UNITS_PER_MM) * (b \div UNITS_PER_MM)
    IN WideNorm((a \div UNITS_PER_MM) * (b \div UNITS_PER_MM) + middle \div UNITS_PER_MM,
                (middle % UNITS_PER_MM) * UNITS_PER_MM
                    + (a % UNITS_PER_MM) * (b % UNITS_PER_MM))

WideAdd(x, y) == WideNorm(x.hi + y.hi, x.lo + y.lo)

WideSub(x, y) == WideNorm(x.hi - y.hi, x.lo - y.lo)

WideLess(x, y) == x.hi < y.hi \/ (x.hi = y.hi /\ x.lo < y.lo)

WideAbs(x) == IF x.hi < 0 THEN WideSub(WideNorm(0, 0), x) ELSE x

\* totalArea, exact
RECURSIVE SumAreaWide(_, _)
SumAreaWide(rects, count) ==
    IF count = 0 THEN WideNorm(0, 0)
    ELSE WideAdd(SumAreaWide(rects, count - 1),
                 WideMul(rects[count].widthMm, rects[count].heightMm))

\* 0.5 mm^2 in squares of the length unit
HalfSquareMillimetre == WideNorm(0, (MillimetreLength * MillimetreLength) \div 2)

\* the candidate built from a successful packing, its waste exact
CandidateWide(cols, packing, sheetW, sheetH, totalArea) ==
    LET rowCount == RowsFor(packing.totalHeightMm, sheetH)
    IN [ columns |-> cols,
         rows |-> rowCount,
         placements |-> packing.placements,
         layoutWidthMm |-> Min(cols * sheetW, Max(sheetW, packing.usedWidthMm)),
         layoutHeightMm |-> Max(packing.totalHeightMm, rowCount * sheetH),
         wasteArea |-> WideSub(WideMul(cols * rowCount * sheetW, sheetH), totalArea),
         totalHeightMm |-> packing.totalHeightMm ]

\* the condition under which the candidate becomes best, on exact wastes
ReplacesWide(cand, cur) ==
    \/ cur = <<>>
    \/ /\ cur # <<>>
       /\ \/ WideLess(cand.wasteArea, WideSub(cur[1].wasteArea, HalfSquareMillimetre))
          \/ /\ WideLess(WideAbs(WideSub(cand.wasteArea, cur[1].wasteArea)),
                         HalfSquareMillimetre)
             /\ \/ cand.rows < cur[1].rows
                \/ /\ cand.rows = cur[1].rows
                   /\ \/ cand.columns < cur[1].columns
                      \/ /\ cand.columns = cur[1].columns
                         /\ cand.totalHeightMm < cur[1].layoutHeightMm

\* the loop of optimisePackingLayout on lengths of the fine unit; cur is
\* best so far, totalArea was computed before the loop
RECURSIVE OptLoopWide(_, _, _, _, _, _)
OptLoopWide(rects, sheetW, sheetH, totalArea, cols, cur) ==
    IF cols > MaximumColumns(MinimumColumns(rects, sheetW)) THEN cur
    ELSE LET packing == PackWithinWidth(rects, cols * sheetW)
         IN IF packing = <<>>
            THEN OptLoopWide(rects, sheetW, sheetH, totalArea, cols + 1, cur)
            ELSE LET cand == CandidateWide(cols, packing[1], sheetW, sheetH, totalArea)
                 IN IF ReplacesWide(cand, cur)
                    THEN OptLoopWide(rects, sheetW, sheetH, totalArea, cols + 1,
                                     <<AsResult(cand)>>)
                    ELSE OptLoopWide(rects, sheetW, sheetH, totalArea, cols + 1, cur)

\* optimisePackingLayout on lengths of the fine unit: <<>> for null
OptimiseWide(objs, sheetW, sheetH) ==
    IF Len(objs) = 0 THEN <<>>
    ELSE LET total == SumAreaWide(SortObjects(objs), Len(objs))
         IN OptLoopWide(SortObjects(objs), sheetW, sheetH, total,
                        MinimumColumns(SortObjects(objs), sheetW), <<>>)

\* the sizes typed into the form of SpecAppFine, in export units: 105 mm and
\* 105.0001 mm wide, 50 mm high
FineSizes == { <<ToUnits(105), ToUnits(50)>>, <<ToUnits(105) + EPSILON, ToUnits(50)>> }

AppFineInit ==
    /\ rectangles = <<>>
    /\ maxWidthMm = 0
    /\ lengthUnit = EPSILON
    /\ pk = PackInit
    /\ packIndex = 0
    /\ packPc = "off"
    /\ appObjects = <<>>
    /\ sheetColumns = 1
    /\ sheetRows = 1
    /\ paperSizeId = "a4"
    /\ orientation = "portrait"
    /\ sheetDimensions = [widthMm |-> ToUnits(PaperA4.widthMm),
                          heightMm |-> ToUnits(PaperA4.heightMm)]
    /\ formError = {}
    /\ alertShown = "none"
    /\ appEvent = "init"
    /\ reads = {}
    /\ nextId = 1
    /\ appSteps = 0
    /\ OptOff
    /\ ExportOff

AddPrintObjectFine == AddPrintObjectFrom(FineSizes, {1})

HandleOptimiseFine ==
    HandleOptimiseWith({ OptimiseWide(appObjects, sheetDimensions.widthMm,
                                      sheetDimensions.heightMm) })

\* SpecAppFine follows every sequence of at most this many handler calls
MaxFineSteps == 6

\* a handler call of SpecAppFine
Counted(handler) ==
    /\ appSteps < MaxFineSteps
    /\ handler
    /\ appSteps' = appSteps + 1

AppFineNext ==
    \/ Counted(AddPrintObjectFine)
    \/ Counted(HandlePointerMove)
    \/ Counted(SetSheetColumns)
    \/ Counted(SetSheetRows)
    \/ Counted(SetPaperSizeId)
    \/ Counted(SetOrientation)
    \/ Counted(HandleOptimiseFine)

SpecAppFine == AppFineInit /\ [][AppFineNext]_vars

-----------------------------------------------------------------------------
(* App: textures, removal and reset (SpecAppTexture).  A FileReader read    *)
(* is in flight from handleTextureSelection until its onload or onerror;   *)
(* any handler can run in between.  Lengths are whole millimetres.          *)

\* most ids handed out in SpecAppTexture
MaxTextureIds == 3

\* the files chosen in the file input: <<name, type>>; <<>> when the dialog
\* was closed without a file
TextureFiles == { <<>>, <<"wood.png", "image/png">>, <<"notes.txt", "text/plain">> }

\* SUPPORTED_TEXTURE_FORMATS[file.type]: "none" for undefined
TextureFormat(type) ==
    IF type = "image/png" THEN "PNG"
    ELSE IF type = "image/jpeg" THEN "JPEG"
    ELSE IF type = "image/jpg" THEN "JPEG"
    ELSE IF type = "image/webp" THEN "WEBP"
    ELSE "none"

\* the ids of a list
ObjectIds(objs) == { objs[i].id : i \in 1..Len(objs) }

\* (mutant) the update of reader.onload that puts the object back when it
\* is no longer in the list
ApplyTextureOrRestore(objs, id, name) ==
    IF id \in ObjectIds(objs)
    THEN [ i \in 1..Len(objs) |->
             IF objs[i].id = id THEN [objs[i] EXCEPT !.textureName = name] ELSE objs[i] ]
    ELSE Append(objs, [ id |-> id, widthMm |-> 1, heightMm |-> 1, xMm |-> 0, yMm |-> 0,
                        textureName |-> name ])

\* the update of reader.onload: the objects of that id get the texture
ApplyTexture(objs, id, name) ==
    [ i \in 1..Len(objs) |->
        IF objs[i].id = id THEN [objs[i] EXCEPT !.textureName = name] ELSE objs[i] ]

\* a file is chosen for an object of the list
HandleTextureSelection ==
    \E i \in 1..Len(appObjects), file \in TextureFiles :
        /\ IF file = <<>>
           THEN UNCHANGED <<formError, reads>>
           ELSE IF TextureFormat(file[2]) = "none"
           THEN /\ formError' = {"unsupported texture"}
                /\ UNCHANGED reads
           ELSE /\ reads' = reads \cup {[id |-> appObjects[i].id, name |-> file[1]]}
                /\ UNCHANGED formError
        /\ appEvent' = "texture chosen"
        /\ UNCHANGED <<appObjects, sheetColumns, sheetRows, sheetDimensions, alertShown,
                       paperSizeId, orientation, nextId, packVars, optVars, expVars>>

\* reader.onload of a read in flight
ReaderOnload ==
    \E read \in reads :
        /\ appObjects' = ApplyTexture(appObjects, read.id, read.name)
        /\ formError' = {}
        /\ reads' = reads \ {read}
        /\ appEvent' = IF read.id \in ObjectIds(appObjects) THEN "texture loaded"
                       ELSE "texture loaded, object gone"
        /\ UNCHANGED <<sheetColumns, sheetRows, sheetDimensions, alertShown,
                       paperSizeId, orientation, nextId, packVars, optVars, expVars>>

\* reader.onerror of a read in flight
ReaderOnerror ==
    \E read \in reads :
        /\ formError' = {"unreadable texture"}
        /\ reads' = reads \ {read}
        /\ appEvent' = "texture unreadable"
        /\ UNCHANGED <<appObjects, sheetColumns, sheetRows, sheetDimensions, alertShown,
                       paperSizeId, orientation, nextId, packVars, optVars, expVars>>

\* removeObject
RemoveObject ==
    \E i \in 1..Len(appObjects) :
        /\ appObjects' = SelectSeq(appObjects, LAMBDA o : o.id # appObjects[i].id)
        /\ appEvent' = "removed"
        /\ UNCHANGED <<sheetColumns, sheetRows, sheetDimensions, formError, alertShown,
                       paperSizeId, orientation, reads, nextId, packVars, optVars, expVars>>

\* clearTexture
ClearTexture ==
    \E i \in 1..Len(appObjects) :
        /\ appObjects' = ApplyTexture(appObjects, appObjects[i].id, "none")
        /\ appEvent' = "texture cleared"
        /\ UNCHANGED <<sheetColumns, sheetRows, sheetDimensions, formError, alertShown,
                       paperSizeId, orientation, reads, nextId, packVars, optVars, expVars>>

\* resetLayout
ResetLayout ==
    /\ appObjects' = <<>>
    /\ formError' = {}
    /\ appEvent' = "reset"
    /\ UNCHANGED <<sheetColumns, sheetRows, sheetDimensions, alertShown,
                   paperSizeId, orientation, reads, nextId, packVars, optVars, expVars>>

\* the form is submitted in SpecAppTexture: valid sizes, while ids remain
AddPrintObjectTexture ==
    /\ nextId <= MaxTextureIds
    /\ AddPrintObjectFrom({<<100, 50>>}, {1, 2})

AppTextureNext ==
    \/ Uncounted(AddPrintObjectTexture)
    \/ Uncounted(HandlePointerMove)
    \/ Uncounted(HandleTextureSelection)
    \/ Uncounted(ReaderOnload)
    \/ Uncounted(ReaderOnerror)
    \/ Uncounted(RemoveObject)
    \/ Uncounted(ClearTexture)
    \/ Uncounted(ResetLayout)

SpecAppTexture == AppInit /\ [][AppTextureNext]_vars

\* C30: a texture read that completes after its object was removed, or
\* after the list was cleared, leaves the object list as it was: the object
\* is not added again and no other object gets the texture.
C30_LateReadChangesNothing ==
    [][appEvent' = "texture loaded, object gone" => appObjects' = appObjects]_vars

\* C30 witness: a read completed for an object that was gone, while other
\* objects were in the list
C30_Witness ==
    /\ appEvent = "texture loaded, object gone"
    /\ Len(appObjects) >= 1

====
